---------------------------- MODULE Spec2Model ----------------------------
(***************************************************************************)
(* A state-machine model of vcfsom.c (bcftools som): the annotation-table  *)
(* reader, the percentile scan of create_dists, the filter-expression      *)
(* parser and evaluator, and the sampling and scoring passes.              *)
(*                                                                         *)
(* C strings are sequences of one-character strings; a C array a[0..n-1]   *)
(* is a function with domain 0..n-1; a double is an exact rational <<n,d>> *)
(* in lowest terms with d > 0, or <<1,0>> (+inf, HUGE_VAL), <<-1,0>>       *)
(* (-inf), <<0,0>> (NaN).                                                  *)
(***************************************************************************)
EXTENDS Integers, Sequences, FiniteSets, Bags, TLC

(***************************************************************************)
(* Program constants                                                       *)
(***************************************************************************)
NFIXED == 5
MASK_GOOD == 2
FLT_LE == 2
FLT_LT == 1
FLT_EQ == 0
FLT_BT == -1
FLT_BE == -2

NUL == "NUL"          \* the terminating 0 byte of a C string
TAB == "\t"
NL == "\n"
NULL == <<"NULL">>    \* a null char* (no option given)

(***************************************************************************)
(* Doubles as exact rationals                                              *)
(***************************************************************************)
Abs(x) == IF x < 0 THEN -x ELSE x
Sign(x) == IF x < 0 THEN -1 ELSE IF x > 0 THEN 1 ELSE 0

RECURSIVE GCD(_, _)
GCD(a, b) == IF b = 0 THEN a ELSE GCD(b, a % b)

Norm(n, d) ==
    IF d = 0 THEN <<Sign(n), 0>>
    ELSE LET g == GCD(Abs(n), Abs(d))
             s == Sign(d)
         IN  <<(s * n) \div g, (s * d) \div g>>

Int2Dbl(i) == <<i, 1>>
HUGE_VAL == <<1, 0>>
NEG_HUGE_VAL == <<-1, 0>>
NAN == <<0, 0>>
isnan(x) == x = NAN
isfinite(x) == x[2] # 0

\* C comparisons on doubles: every comparison with a NaN is false
DLt(a, b) ==
    /\ ~isnan(a) /\ ~isnan(b)
    /\ IF a[2] = 0 /\ b[2] = 0 THEN a[1] < b[1]
       ELSE LET g == GCD(a[2], b[2])
            IN  a[1] * (b[2] \div g) < b[1] * (a[2] \div g)
DEq(a, b) == ~isnan(a) /\ ~isnan(b) /\ a = b
DLe(a, b) == DLt(a, b) \/ DEq(a, b)
DGt(a, b) == DLt(b, a)
DGe(a, b) == DLe(b, a)
DNe(a, b) == ~DEq(a, b)

\* a - b, a / b, a * b, a + b for the operand kinds the program produces
DSub(a, b) ==
    IF isnan(a) \/ isnan(b) THEN NAN
    ELSE IF a[2] = 0 /\ b[2] = 0 THEN (IF a[1] = b[1] THEN NAN ELSE a)
    ELSE IF a[2] = 0 THEN a
    ELSE IF b[2] = 0 THEN <<-b[1], 0>>
    ELSE LET g == GCD(a[2], b[2])
         IN  Norm(a[1] * (b[2] \div g) - b[1] * (a[2] \div g), (a[2] \div g) * b[2])
DAdd(a, b) == DSub(a, <<-b[1], b[2]>>)
DMul(a, b) ==
    IF isnan(a) \/ isnan(b) THEN NAN
    ELSE IF a[2] = 0 \/ b[2] = 0 THEN <<Sign(a[1]) * Sign(b[1]), 0>>
    ELSE Norm(a[1] * b[1], a[2] * b[2])
DDiv(a, b) ==
    IF isnan(a) \/ isnan(b) THEN NAN
    ELSE IF a[2] = 0 /\ b[2] = 0 THEN NAN
    ELSE IF a[2] = 0 THEN <<a[1] * (IF b[1] < 0 THEN -1 ELSE 1), 0>>
    ELSE IF b[2] = 0 THEN <<0, 1>>
    ELSE Norm(a[1] * b[2], a[2] * b[1])

(***************************************************************************)
(* int bit operations                                                      *)
(***************************************************************************)
RECURSIVE Pow2(_)
Pow2(n) == IF n = 0 THEN 1 ELSE 2 * Pow2(n - 1)

RECURSIVE Pow10(_)
Pow10(n) == IF n = 0 THEN 1 ELSE 10 * Pow10(n - 1)

RECURSIVE BitAnd(_, _)
BitAnd(a, b) ==
    IF a = 0 \/ b = 0 THEN 0
    ELSE (a % 2) * (b % 2) + 2 * BitAnd(a \div 2, b \div 2)

RECURSIVE BitOr(_, _)
BitOr(a, b) ==
    IF a = 0 THEN b
    ELSE IF b = 0 THEN a
    ELSE (IF a % 2 = 1 \/ b % 2 = 1 THEN 1 ELSE 0) + 2 * BitOr(a \div 2, b \div 2)

BitSet(m, i) == (m \div Pow2(i)) % 2 = 1

(***************************************************************************)
(* C string helpers                                                        *)
(***************************************************************************)
CharAt(s, p) == IF p \in 1..Len(s) THEN s[p] ELSE NUL

Digits == {"0", "1", "2", "3", "4", "5", "6", "7", "8", "9"}
DigitSeq == <<"0", "1", "2", "3", "4", "5", "6", "7", "8", "9">>
DigitOf(c) == (CHOOSE i \in 1..10 : DigitSeq[i] = c) - 1

isspace(c) == c \in {" ", TAB, NL}

\* column_next(): the first position at or after start that holds delim or the 0 byte
RECURSIVE column_next(_, _, _)
column_next(s, start, delim) ==
    IF CharAt(s, start) = NUL \/ CharAt(s, start) = delim THEN start
    ELSE column_next(s, start + 1, delim)

RECURSIVE SkipSpace(_, _)
SkipSpace(s, p) == IF isspace(CharAt(s, p)) THEN SkipSpace(s, p + 1) ELSE p

RECURSIVE DigitsEnd(_, _)
DigitsEnd(s, p) == IF CharAt(s, p) \in Digits THEN DigitsEnd(s, p + 1) ELSE p

\* the value of the decimal digits s[p..q-1]
RECURSIVE DigitsVal(_, _, _)
DigitsVal(s, p, q) ==
    IF p >= q THEN 0 ELSE 10 * DigitsVal(s, p, q - 1) + DigitOf(s[q - 1])

\* strtol(s+p-1, NULL, 10) on an unsigned decimal field
strtol(s, p) == DigitsVal(s, SkipSpace(s, p), DigitsEnd(s, SkipSpace(s, p)))

\* sscanf(s+p-1, "%le", &val): skips white space, then reads an optional sign and
\* "inf", "nan" or digits[.digits]; n is the number of conversions (1, or 0 when
\* nothing parses).  Exponents are not read: no modelled input holds one.
sscanf_le(s, p) ==
    LET q0 == SkipSpace(s, p)
        neg == CharAt(s, q0) = "-"
        q == IF CharAt(s, q0) \in {"-", "+"} THEN q0 + 1 ELSE q0
        sg == IF neg THEN -1 ELSE 1
        word3 == <<CharAt(s, q), CharAt(s, q + 1), CharAt(s, q + 2)>>
        ie == DigitsEnd(s, q)
        dot == CharAt(s, ie) = "."
        fe == IF dot THEN DigitsEnd(s, ie + 1) ELSE ie
        nfrac == IF dot THEN fe - (ie + 1) ELSE 0
        ndig == (ie - q) + nfrac
    IN  IF word3 = <<"i", "n", "f">> THEN [n |-> 1, val |-> <<sg, 0>>]
        ELSE IF word3 = <<"n", "a", "n">> THEN [n |-> 1, val |-> NAN]
        ELSE IF ndig = 0 THEN [n |-> 0, val |-> NAN]
        ELSE [n |-> 1,
              val |-> Norm(sg * (DigitsVal(s, q, ie) * Pow10(nfrac)
                                 + (IF dot THEN DigitsVal(s, ie + 1, fe) ELSE 0)),
                           Pow10(nfrac))]

\* the characters s[p..q-1]
Sub(s, p, q) == IF q <= p THEN <<>> ELSE SubSeq(s, p, q - 1)

\* split_list(): the fields of str between delim characters, in order
RECURSIVE split_list(_, _)
split_list(str, delim) ==
    LET e == column_next(str, 1, delim)
    IN  IF CharAt(str, e) = NUL THEN <<str>>
        ELSE <<Sub(str, 1, e)>> \o split_list(Sub(str, e + 1, Len(str) + 1), delim)

(***************************************************************************)
(* scale_value, parse_mask, str_mask_set                                   *)
(***************************************************************************)
\* scale_value() before its assertion
scale_value(dist, val) ==
    IF DLt(val, dist.scale_min) THEN Int2Dbl(0)
    ELSE IF DGt(val, dist.scale_max) THEN Int2Dbl(1)
    ELSE DDiv(DSub(val, dist.scale_min), DSub(dist.scale_max, dist.scale_min))

\* assert( val>=0 && val<=1 ) in scale_value
scale_assert(val) == DGe(val, Int2Dbl(0)) /\ DLe(val, Int2Dbl(1))

RECURSIVE parse_mask_from(_, _)
parse_mask_from(str, i) ==
    IF CharAt(str, i + 1) = NUL THEN 0
    ELSE (IF str[i + 1] = "1" THEN Pow2(i) ELSE 0) + parse_mask_from(str, i + 1)

parse_mask(str) == parse_mask_from(str, 0)

\* the test of str_mask_set on character i: mask & i<<1, where << binds tighter than &
mask_bit_test(mask, i) == BitAnd(mask, i * 2) # 0

\* str_mask_set(s+p-1, mask), scanning from character index i
RECURSIVE str_mask_set_from(_, _, _, _)
str_mask_set_from(s, p, mask, i) ==
    IF CharAt(s, p + i) \notin {"0", "1"} THEN 0
    ELSE IF CharAt(s, p + i) = "1" /\ mask_bit_test(mask, i) THEN 1
    ELSE str_mask_set_from(s, p, mask, i + 1)

str_mask_set(s, p, mask) == str_mask_set_from(s, p, mask, 0)

(***************************************************************************)
(* The annotation table's header and the inputs of a run                   *)
(***************************************************************************)
\* args->colnames after init_annots has stripped the "[i]" prefixes: the five fixed
\* columns and the annotation columns A and B
colnames == [i \in 0..6 |->
                <<<<"C", "H", "R", "O", "M">>, <<"P", "O", "S">>, <<"M", "A", "S", "K">>,
                  <<"R", "E", "F">>, <<"A", "L", "T">>, <<"A">>, <<"B">>>>[i + 1]]
ncols == NFIXED + 2

AnnCols == NFIXED..(ncols - 1)

\* args->scale, set once in main_vcfsom
scale == 1

VARIABLES
    pc,                 \* where the run is: which function of init_data/eval_filters runs next
    err,                \* the message of the error() call that ended the run, or ""
    annot_str,          \* -a: the requested annotations, or NULL
    learning_filters,   \* -l: the learning filter expression, or NULL
    good_mask,          \* args->good_mask = parse_mask(-g)
    dist_file,          \* the lines of <prefix>.n read by init_dists
    col2names, ann2cols, ignore, nann, nann_som,
    dists,              \* args->dists, indexed by column
    args_ngood, args_nall,
    line,               \* the line hts_getline handed to annots_reader_next
    chr, pos, mask, nset, nset_mask, vals, raw_vals, missing,
    filt_learn,         \* args->filt_learn
    failed,             \* the value of the last failed_filters call
    scratch,            \* create_dists: the lines written to <prefix>.<column>, a bag per column
    cdists,             \* create_dists: its local array dists
    cd_i,               \* create_dists: the column index i of the percentile loop
    sort_fp,            \* create_dists: what is left to read of the sort stream fp
    sort_count,         \* create_dists: count
    sort_val,           \* create_dists: val
    table,              \* the lines of the annotation table
    row,                \* the number of lines the current pass has read
    nt_learn_frac,      \* -n: the fraction of training vectors taken from -l sites
    som,                \* args->good_som
    ngood_fixed_max, ngood_learn_max,
    ngood_vals_fixed, ngood_vals_learn,
    good_vals_fixed, good_vals_learn,
    sites,              \* the records written to <prefix>.sites.gz
    stored,             \* som_init: the reservoir and index of the row's write (lines 991-992, 1004-1005)
    calls,              \* som_init: the som_train and som_norm calls made so far, in order
    qvec, qdist,        \* som_calc_dist: its argument vec and the value it returned
    eval_ngood, eval_nall,  \* eval_filters: the locals ngood and nall of the scoring loop
    eval_line,          \* eval_filters: the score, class and mask of the line last read from fp
    nall_read, ngood_read, nclass, nclass_novel, prev_metric,
    out,                \* the lines written to <prefix>.tab after its header
    ictx,               \* determine_variant_class: nrep, nlen and ndel as indel_ctx_type returned them
    vclass,             \* determine_variant_class: the class it returned
    trn,                \* som_train: the locals of the last call
    io                  \* the files and streams of the run: which are open, which exist

annotVars == <<col2names, ann2cols, ignore, nann, nann_som, dists, args_ngood, args_nall>>
inputVars == <<annot_str, learning_filters, good_mask, dist_file>>
readerVars == <<line, chr, pos, mask, nset, nset_mask, vals, raw_vals, missing>>
filterVars == <<filt_learn, failed>>

createVars == <<scratch, cdists, cd_i, sort_fp, sort_count, sort_val>>
tableVars == <<table, nt_learn_frac>>
somVars == <<row, som, ngood_fixed_max, ngood_learn_max, ngood_vals_fixed, ngood_vals_learn,
             good_vals_fixed, good_vals_learn, sites>>
trainVars == <<stored, calls>>
queryVars == <<qvec, qdist>>
loopVars == <<eval_line, nall_read, ngood_read, nclass, nclass_novel, prev_metric, out>>
evalVars == <<eval_ngood, eval_nall, loopVars>>

\* what som_init and eval_filters work on
callVars == <<ictx, vclass, trn>>
runVars == <<somVars, trainVars, queryVars, evalVars, callVars>>

vars == <<pc, err, inputVars, annotVars, readerVars, filterVars, createVars, tableVars, runVars,
          io>>

UNSET == -1     \* the content of a malloc'ed int the program never reads before writing

(***************************************************************************)
(* init_dists, init_extra_annot, init_annots                               *)
(***************************************************************************)
ZeroDist == [nall |-> 0, ngood |-> 0, nmissing |-> 0,
             scale_min |-> Int2Dbl(0), scale_max |-> Int2Dbl(0)]

\* the column j in NFIXED..ncols-1 named name, or ncols
RECURSIVE find_col(_, _)
find_col(name, j) ==
    IF j >= ncols THEN ncols
    ELSE IF colnames[j] = name THEN j
    ELSE find_col(name, j + 1)

\* the check init_dists makes on the line it has just stored into dists[j]
dist_line_ok(ign, d, j) == ~(ign[j] = 0 /\ DEq(d.scale_min, d.scale_max))

\* the first loop of init_dists: one line of the file per annotation column
RECURSIVE init_dists_lines(_, _, _, _)
init_dists_lines(file, ign, i, st) ==
    IF i >= ncols - NFIXED \/ st.err # "" THEN st
    ELSE LET ln == file[i + 1]
             j == find_col(ln.name, NFIXED)
             d == [nall |-> ln.nall, ngood |-> ln.ngood, nmissing |-> ln.nmissing,
                   scale_min |-> ln.scale_min, scale_max |-> ln.scale_max]
         IN  IF j = ncols THEN init_dists_lines(file, ign, i + 1, st)
             ELSE IF ~dist_line_ok(ign, d, j)
                  THEN [st EXCEPT !.dists[j] = d,
                                  !.err = "The annotation does not look good, please leave it out"]
             ELSE init_dists_lines(file, ign, i + 1, [st EXCEPT !.dists[j] = d])

\* the second loop of init_dists
RECURSIVE init_dists_extremes(_, _)
init_dists_extremes(i, st) ==
    IF i >= ncols \/ st.err # "" THEN st
    ELSE IF st.dists[i].nall = 0 /\ st.dists[i].nmissing = 0
         THEN [st EXCEPT !.err = "No extremes found for the annotation"]
    ELSE init_dists_extremes(i + 1,
            [st EXCEPT !.nall = IF st.dists[i].nall < @ THEN st.dists[i].nall ELSE @,
                       !.ngood = IF st.dists[i].ngood < @ THEN st.dists[i].ngood ELSE @])

INT_MAX == 2147483647

init_dists(file, ign) ==
    LET st0 == [dists |-> [j \in 0..(ncols - 1) |-> ZeroDist], err |-> "",
                nall |-> INT_MAX, ngood |-> INT_MAX]
    IN  init_dists_extremes(NFIXED, init_dists_lines(file, ign, 0, st0))

\* the extension that leaves the column ignored
init_extra_annot_ignored(a, annot) ==
    LET i == find_col(annot, NFIXED)
    IN  IF i = ncols THEN [a EXCEPT !.err = "The annotation is not available"]
        ELSE [a EXCEPT !.col2names[i] = a.nann,
                       !.ann2cols[a.nann] = i,
                       !.nann = a.nann + 1]

\* init_extra_annot on the annotation state a; i is the column of annot
init_extra_annot(a, annot) ==
    LET i == find_col(annot, NFIXED)
    IN  IF i = ncols THEN [a EXCEPT !.err = "The annotation is not available"]
        ELSE [a EXCEPT !.ignore[i] = 0,
                       !.col2names[i] = a.nann,
                       !.ann2cols[a.nann] = i,
                       !.nann = a.nann + 1]

\* the loop of init_annots over the requested names
RECURSIVE init_annots_names(_, _, _)
init_annots_names(nms, i, a) ==
    IF i >= Len(nms) \/ a.err # "" THEN a
    ELSE LET j == find_col(nms[i + 1], NFIXED)
         IN  IF j = ncols THEN [a EXCEPT !.err = "The requested annotation not in the file"]
             ELSE IF a.col2names[j] # -1
                  THEN [a EXCEPT !.err = "The annotation given multiple times?"]
             ELSE init_annots_names(nms, i + 1,
                     [a EXCEPT !.col2names[j] = i, !.ann2cols[i] = j, !.ignore[j] = 0])

\* init_annots from the column names on: the index maps, then init_dists
init_annots(astr, file) ==
    LET a0 == [col2names |-> [i \in 0..(ncols - 1) |-> -1],
               ignore |-> [i \in 0..(ncols - 1) |-> IF i < NFIXED THEN 0 ELSE 1],
               ann2cols |-> [i \in 0..(ncols - 1) |-> UNSET],
               nann |-> 0, nann_som |-> 0, err |-> ""]
        a1 == IF astr = NULL
              THEN [a0 EXCEPT !.nann = ncols - NFIXED,
                              !.nann_som = ncols - NFIXED,
                              !.col2names = [i \in 0..(ncols - 1) |->
                                                IF i < NFIXED THEN -1 ELSE i - NFIXED],
                              !.ignore = [i \in 0..(ncols - 1) |-> 0],
                              !.ann2cols = [i \in 0..(ncols - 1) |->
                                                IF i < ncols - NFIXED THEN i + NFIXED ELSE UNSET]]
              ELSE LET nms == split_list(astr, ",")
                   IN  init_annots_names(nms, 0,
                          [a0 EXCEPT !.nann = Len(nms), !.nann_som = Len(nms)])
    IN  IF a1.err # "" THEN [a |-> a1, d |-> [dists |-> NULL, err |-> a1.err,
                                              nall |-> 0, ngood |-> 0]]
        ELSE [a |-> a1, d |-> init_dists(file, a1.ignore)]

(***************************************************************************)
(* annots_reader_next                                                      *)
(***************************************************************************)
\* nset_mask |= iann, the shift forgotten
nset_mask_add_unshifted(m, iann) == BitOr(m, iann)

\* args->nset_mask |= 1 << iann
nset_mask_add(m, iann) == BitOr(m, Pow2(iann))

\* the loop over the annotation columns; t is the position of the pointer t and
\* r holds the fields of args the loop writes
RECURSIVE reader_columns(_, _, _, _)
reader_columns(ln, icol, t, r) ==
    IF icol >= ncols \/ r.err # "" THEN r
    ELSE IF CharAt(ln, t) = NUL
         THEN [r EXCEPT !.err = "Could not parse data field: is the line truncated?"]
    ELSE IF ignore[icol] # 0
         THEN reader_columns(ln, icol + 1, column_next(ln, t + 1, TAB), r)
    ELSE LET iann == col2names[icol]
             t1 == t + 1
             sc == sscanf_le(ln, t1)
             scaled == IF scale # 0 /\ dists # NULL
                       THEN scale_value(dists[icol], sc.val) ELSE sc.val
         IN  IF CharAt(ln, t1) = "." /\ CharAt(ln, t1 + 1) \in {TAB, NL, NUL}
             THEN reader_columns(ln, icol + 1, t1 + 1, [r EXCEPT !.missing[iann] = 1])
             ELSE IF sc.n # 1
                  THEN [r EXCEPT !.err = "Could not parse data field"]
             ELSE IF sc.val = HUGE_VAL \/ sc.val = NEG_HUGE_VAL \/ isnan(sc.val)
                  THEN reader_columns(ln, icol + 1, column_next(ln, t1, TAB),
                          [r EXCEPT !.vals[iann] = sc.val, !.missing[iann] = 1])
             ELSE IF scale # 0 /\ dists # NULL /\ ~scale_assert(scaled)
                  THEN [r EXCEPT !.raw_vals[iann] = sc.val, !.vals[iann] = scaled,
                                 !.err = "Assertion failed: val>=0 && val<=1"]
             ELSE reader_columns(ln, icol + 1, column_next(ln, t1, TAB),
                     [r EXCEPT !.raw_vals[iann] = sc.val,
                               !.vals[iann] = scaled,
                               !.nset = @ + 1,
                               !.nset_mask = nset_mask_add(@, iann),
                               !.missing[iann] = 0])

\* annots_reader_next on the line ln; r0 holds the fields of args before the call
annots_reader_next(ln, r0) ==
    LET tchr == column_next(ln, 1, TAB)
        tpos == column_next(ln, tchr + 1, TAB)
        tmask == column_next(ln, tpos + 1, TAB)
        tref == column_next(ln, tmask + 1, TAB)
        talt == column_next(ln, tref + 1, TAB)
        r1 == [r0 EXCEPT !.chr = IF ignore[0] = 0 THEN Sub(ln, 1, tchr) ELSE @,
                         !.pos = IF ignore[1] = 0 THEN strtol(ln, tchr + 1) ELSE @,
                         !.mask = IF ignore[2] # 0 THEN @
                                  ELSE IF good_mask # 0
                                       THEN 1 + str_mask_set(ln, tpos + 1, good_mask)
                                       ELSE 1,
                         !.nset = 0,
                         !.nset_mask = 0]
    IN  IF CharAt(ln, tchr) = NUL THEN [r0 EXCEPT !.err = "Could not parse CHR"]
        ELSE IF CharAt(ln, tpos) = NUL THEN [r0 EXCEPT !.err = "Could not parse POS"]
        ELSE IF CharAt(ln, tmask) = NUL THEN [r0 EXCEPT !.err = "Could not parse MASK"]
        ELSE IF CharAt(ln, tref) = NUL THEN [r0 EXCEPT !.err = "Could not parse REF"]
        ELSE IF CharAt(ln, talt) = NUL THEN [r0 EXCEPT !.err = "Could not parse ALT"]
        ELSE reader_columns(ln, NFIXED, talt + 1, r1)

\* the fields of args that annots_reader_next writes, as a record
ReaderState == [chr |-> chr, pos |-> pos, mask |-> mask, nset |-> nset,
                nset_mask |-> nset_mask, vals |-> vals, raw_vals |-> raw_vals,
                missing |-> missing, err |-> ""]

SetReaderState(r) ==
    /\ chr' = r.chr /\ pos' = r.pos /\ mask' = r.mask /\ nset' = r.nset
    /\ nset_mask' = r.nset_mask /\ vals' = r.vals /\ raw_vals' = r.raw_vals
    /\ missing' = r.missing

(***************************************************************************)
(* init_filters, failed_filters                                            *)
(***************************************************************************)
OpChars == {"<", ">", "="}
BAD_OP == 99      \* no FLT_* key: the expression is rejected

RECURSIVE OpEnd(_, _)
OpEnd(x, e) == IF CharAt(x, e) \in OpChars THEN OpEnd(x, e + 1) ELSE e

\* the FLT_* key of the operator text op
flt_type(op) ==
    IF Len(op) = 2
    THEN (IF op = <<"=", "=">> THEN FLT_EQ
          ELSE IF op = <<"<", "=">> THEN FLT_LE
          ELSE IF op = <<">", "=">> THEN FLT_BE
          ELSE BAD_OP)
    ELSE IF Len(op) = 1
    THEN (IF op = <<">">> THEN FLT_BT
          ELSE IF op = <<"<">> THEN FLT_LT
          ELSE FLT_EQ)
    ELSE BAD_OP

\* the key left as read when the annotation is the right operand
flt_swap_forgotten(type) == type

\* the key stored when the annotation is the right operand: type *= -1
flt_swap(type) == type * (-1)

\* the loop that looks the two operands up among the column names
RECURSIVE flt_find(_, _, _)
flt_find(left, right, i) ==
    IF i >= ncols THEN [i |-> ncols, swap |-> FALSE]
    ELSE IF colnames[i] = left THEN [i |-> i, swap |-> FALSE]
    ELSE IF colnames[i] = right THEN [i |-> i, swap |-> TRUE]
    ELSE flt_find(left, right, i + 1)

ParseError == "Could not parse filter expression"

\* one term: st.a is the annotation state, st.f the filters_t being filled
flt_term(x, sc, s, e, st) ==
    LET left == Sub(x, s, e)
        e1 == OpEnd(x, e)
        type == flt_type(Sub(x, e, e1))
        e2 == column_next(x, e1, "&")
        right == Sub(x, e1, e2)
        m == flt_find(left, right, NFIXED)
        ann == IF m.swap THEN right ELSE left
        lit == IF m.swap THEN left ELSE right
        ty == IF m.swap THEN flt_swap(type) ELSE type
        ext == st.a.col2names[m.i] = -1
        a1 == IF ext THEN init_extra_annot(st.a, ann) ELSE st.a
        i == a1.col2names[m.i]
        num == sscanf_le(lit, 1)
        value == IF sc # 0 THEN scale_value(dists[a1.ann2cols[i]], num.val) ELSE num.val
        desc == colnames[m.i] \o <<TAB>> \o Sub(x, s, e2)
        f1 == [st.f EXCEPT !.nann = IF ext THEN a1.nann ELSE @,
                           !.nfilt[i] = @ + 1,
                           !.ntot = @ + 1,
                           !.filt[i] = Append(@, [type |-> ty, value |-> value, desc |-> desc]),
                           !.flt_mask_desc = Append(@, Sub(x, s, e2))]
    IN  IF CharAt(x, e1) = NUL THEN [st EXCEPT !.err = ParseError]
        ELSE IF type = BAD_OP THEN [st EXCEPT !.err = ParseError]
        ELSE IF m.i = ncols THEN [st EXCEPT !.err = "No such annotation is available"]
        ELSE IF num.n # 1 THEN [st EXCEPT !.a = a1, !.err = ParseError]
        ELSE IF sc # 0 /\ ~scale_assert(value)
             THEN [st EXCEPT !.a = a1, !.err = "Assertion failed: val>=0 && val<=1"]
        ELSE [st EXCEPT !.a = a1, !.f = f1]

\* the scanning loop of init_filters over the stripped expression x
RECURSIVE init_filters_scan(_, _, _, _, _)
init_filters_scan(x, sc, s, e, st) ==
    IF st.err # "" \/ CharAt(x, e) = NUL THEN st
    ELSE IF CharAt(x, e) = "&" THEN init_filters_scan(x, sc, e + 1, e + 1, st)
    ELSE IF CharAt(x, e) \in OpChars
         THEN LET e2 == column_next(x, OpEnd(x, e), "&")
              IN  init_filters_scan(x, sc, e2, e2, flt_term(x, sc, s, e, st))
    ELSE init_filters_scan(x, sc, s, e + 1, st)

\* sizeof(uint64_t)-1, the largest ntot init_filters accepts
flt_max_ntot == 8 - 1

init_filters(a, str, sc) ==
    LET f0 == [ntot |-> 0, nann |-> a.nann,
               filt |-> [i \in 0..(ncols - NFIXED - 1) |-> <<>>],
               nfilt |-> [i \in 0..(ncols - NFIXED - 1) |-> 0],
               flt_mask_desc |-> <<>>]
        x == SelectSeq(str, LAMBDA c : ~isspace(c))
        st == init_filters_scan(x, sc, 1, 1, [a |-> a, f |-> f0, err |-> ""])
    IN  IF st.err = "" /\ st.f.ntot > flt_max_ntot
        THEN [st EXCEPT !.err = "Uh, too many hard-filters"]
        ELSE st

\* the switch of failed_filters: does value v fail the filter flt
flt_fails(flt, v) ==
    CASE flt.type = FLT_BE -> DLt(v, flt.value)
      [] flt.type = FLT_BT -> DLe(v, flt.value)
      [] flt.type = FLT_EQ -> DNe(v, flt.value)
      [] flt.type = FLT_LT -> DGe(v, flt.value)
      [] flt.type = FLT_LE -> DGt(v, flt.value)
      [] OTHER -> FALSE

RECURSIVE failed_filters_from(_, _, _, _, _)
failed_filters_from(filt, vec, i, j, k) ==
    IF i >= filt.nann THEN 0
    ELSE IF j >= filt.nfilt[i] THEN failed_filters_from(filt, vec, i + 1, 0, k)
    ELSE (IF flt_fails(filt.filt[i][j + 1], vec[i]) THEN Pow2(k) ELSE 0)
         + failed_filters_from(filt, vec, i, j + 1, k + 1)

failed_filters(filt, vec) == failed_filters_from(filt, vec, 0, 0, 0)

\* args->filt_learn before init_filters: calloc'ed, so every pointer is null
NoFilters == [ntot |-> 0, nann |-> 0, filt |-> NULL, nfilt |-> NULL, flt_mask_desc |-> <<>>]

(***************************************************************************)
(* Actions of init_data                                                    *)
(***************************************************************************)
AnnotState == [col2names |-> col2names, ann2cols |-> ann2cols, ignore |-> ignore,
               nann |-> nann, nann_som |-> nann_som, err |-> ""]

SetAnnotState(a) ==
    /\ col2names' = a.col2names /\ ann2cols' = a.ann2cols /\ ignore' = a.ignore
    /\ nann' = a.nann /\ nann_som' = a.nann_som

\* init_annots, which ends by calling init_dists
InitAnnots ==
    /\ pc = "init_annots"
    /\ \E r \in { init_annots(annot_str, dist_file) } :
           /\ SetAnnotState(r.a)
           /\ dists' = r.d.dists
           /\ args_nall' = r.d.nall
           /\ args_ngood' = r.d.ngood
           /\ err' = r.d.err
           /\ pc' = IF r.d.err # "" THEN "error" ELSE "init_filters"
    /\ UNCHANGED <<inputVars, readerVars, filterVars, createVars, tableVars, runVars,
                   io>>

\* if ( args->learning_filters ) init_filters(args, &args->filt_learn, args->learning_filters, 0)
InitFilters(next) ==
    /\ pc = "init_filters"
    /\ IF learning_filters = NULL
       THEN /\ pc' = next
            /\ UNCHANGED <<err, annotVars, filt_learn>>
       ELSE \E r \in { init_filters(AnnotState, learning_filters, 0) } :
                /\ SetAnnotState(r.a)
                /\ filt_learn' = r.f
                /\ err' = r.err
                /\ pc' = IF r.err # "" THEN "error" ELSE next
                /\ UNCHANGED <<dists, args_ngood, args_nall>>
    /\ UNCHANGED <<inputVars, readerVars, failed, createVars, tableVars, runVars,
                   io>>

(***************************************************************************)
(* Inputs: option values, persisted distributions, table lines             *)
(***************************************************************************)
\* -a: absent, one column, or both columns in the order that swaps them
AnnotStrs == {NULL, <<"A">>, <<"B">>, <<"B", ",", "A">>}

\* -g: the default "010" and three other bit strings
GoodMaskStrs == {<<"0", "1", "0">>, <<"1">>, <<"0", "1", "1">>, <<"0">>}

\* lines of <prefix>.n for one column: a column with values 1..3; a constant column;
\* a column create_dists saw only missing values in (scale_min is HUGE_VAL and
\* scale_max the uninitialised val, here 0 or HUGE_VAL); a column with no row at all
DistChoices ==
    { [nall |-> 3, ngood |-> 1, nmissing |-> 0, scale_min |-> Int2Dbl(1), scale_max |-> Int2Dbl(3)],
      [nall |-> 3, ngood |-> 1, nmissing |-> 0, scale_min |-> Int2Dbl(2), scale_max |-> Int2Dbl(2)],
      [nall |-> 0, ngood |-> 0, nmissing |-> 3, scale_min |-> HUGE_VAL, scale_max |-> Int2Dbl(0)],
      [nall |-> 0, ngood |-> 0, nmissing |-> 3, scale_min |-> HUGE_VAL, scale_max |-> HUGE_VAL],
      [nall |-> 0, ngood |-> 0, nmissing |-> 0, scale_min |-> HUGE_VAL, scale_max |-> Int2Dbl(0)] }

WithName(d, name) ==
    [name |-> name, nall |-> d.nall, ngood |-> d.ngood, nmissing |-> d.nmissing,
     scale_min |-> d.scale_min, scale_max |-> d.scale_max]

OkDist == [nall |-> 3, ngood |-> 1, nmissing |-> 0,
           scale_min |-> Int2Dbl(1), scale_max |-> Int2Dbl(3)]

\* <prefix>.n as create_dists writes it: one line per annotation column, in column
\* order; at most one of the two columns is not the column with values 1..3
DistFiles == { <<WithName(da, colnames[NFIXED]), WithName(db, colnames[NFIXED + 1])>> :
                  da \in DistChoices, db \in {OkDist} }
             \cup
             { <<WithName(da, colnames[NFIXED]), WithName(db, colnames[NFIXED + 1])>> :
                  da \in {OkDist}, db \in DistChoices }

\* the text of one annotation field, and the MASK field
FieldTexts == { <<".">>, <<"0">>, <<"2">>, <<"1", "2">>, <<"i", "n", "f">> }
MaskTexts == { <<"0", "0", "0">>, <<"0", "1", "0">>, <<"1", "0", "0">>, <<"0", "0", "1">> }

TableLine(m, a, b) ==
    <<"1", TAB, "7", TAB>> \o m \o <<TAB, "A", TAB, "G", TAB>> \o a \o <<TAB>> \o b

\* every pair of annotation fields under one MASK, and every MASK over one pair
ReaderLines == { TableLine(<<"0", "1", "0">>, a, b) : a \in FieldTexts, b \in FieldTexts }
               \cup { TableLine(m, <<"2">>, <<"2">>) : m \in MaskTexts }

\* -l for the reader: absent, or one term on either column
ReaderFilters == { NULL, <<"A", ">", "0", ".", "5">>, <<"0", ".", "5", "<", "B">> }

(***************************************************************************)
(* The state main_vcfsom hands to init_data                                *)
(***************************************************************************)
\* args and the locals of create_dists, som_init and eval_filters before they are set
ArgsZero ==
    /\ err = ""
    /\ col2names = NULL /\ ann2cols = NULL /\ ignore = NULL
    /\ nann = 0 /\ nann_som = 0
    /\ dists = NULL
    /\ args_ngood = 0 /\ args_nall = 0
    /\ line = <<>> /\ chr = NULL /\ pos = 0 /\ mask = 0
    /\ nset = 0 /\ nset_mask = 0
    /\ vals = [i \in 0..(ncols - 1) |-> Int2Dbl(0)]
    /\ raw_vals = [i \in 0..(ncols - 1) |-> Int2Dbl(0)]
    /\ missing = [i \in 0..(ncols - 1) |-> 0]
    /\ filt_learn = NoFilters
    /\ failed = 0

\* no file of the run is open and none exists: fps are the columns whose scratch FILE*
\* is open, tmp the columns whose scratch file exists, sort the column whose sort
\* stream is open (-1: none), sites the BGZF file of <prefix>.sites.gz, evsort the
\* stream of the sort of the sites, status what the last pclose returned
NoIo == [fps |-> {}, tmp |-> {}, sort |-> -1, sites |-> "unopened", evsort |-> FALSE,
         status |-> 0]

CreateZero ==
    /\ scratch = <<>> /\ cdists = <<>> /\ cd_i = 0
    /\ sort_fp = <<>> /\ sort_count = 0 /\ sort_val = Int2Dbl(0)
    /\ io = NoIo

\* no write to a reservoir
NoWrite == [res |-> "none", i |-> 0]

\* no line of the sorted sites has been read
NoLine == [score |-> Int2Dbl(0), class |-> 0, mask |-> 0]

\* the locals of the evaluation loop as lines 1103-1104 set them, the write log of
\* som_init and the last som_calc_dist call
LoopZero ==
    /\ eval_line = NoLine
    /\ nall_read = 0 /\ ngood_read = 0
    /\ nclass = [c \in 0..2 |-> 0] /\ nclass_novel = [c \in 0..2 |-> 0]
    /\ prev_metric = Int2Dbl(-1)
    /\ out = <<>>

\* no indel_ctx_type call and no som_train call
NoCtx == [nrep |-> 0, nlen |-> 0, ndel |-> 0]
NoTrain == [jsom |-> 0, imin |-> 0, jmin |-> 0, t |-> 0, radius |-> <<0, 1>>,
            rate |-> <<0, 1>>, vec |-> <<>>]

TrainZero ==
    /\ stored = NoWrite /\ calls = <<>>
    /\ qvec = <<>> /\ qdist = Int2Dbl(0)
    /\ ictx = NoCtx /\ vclass = 0 /\ trn = NoTrain

LaterZero == TrainZero /\ eval_ngood = 0 /\ eval_nall = 0 /\ LoopZero

SomZero ==
    /\ row = 0 /\ som = NULL
    /\ ngood_fixed_max = 0 /\ ngood_learn_max = 0
    /\ ngood_vals_fixed = 0 /\ ngood_vals_learn = 0
    /\ good_vals_fixed = <<>> /\ good_vals_learn = <<>>
    /\ sites = <<>>
    /\ LaterZero

NoTable == table = <<>> /\ nt_learn_frac = Int2Dbl(0)

InitArgs == pc = "init_annots" /\ ArgsZero /\ CreateZero /\ SomZero

(***************************************************************************)
(* The reader on any line of a table                                       *)
(***************************************************************************)
\* one call annots_reader_next(args) of a reading loop, on the next line ln of the file
ReaderNext ==
    /\ pc = "reading"
    /\ \E ln \in ReaderLines :
          \E r \in { annots_reader_next(ln, ReaderState) } :
              /\ line' = ln
              /\ IF r.err # ""
                 THEN /\ pc' = "error"
                      /\ err' = r.err
                      /\ UNCHANGED <<chr, pos, mask, nset, nset_mask, vals, raw_vals, missing>>
                 ELSE /\ SetReaderState(r)
                      /\ UNCHANGED <<pc, err>>
    /\ UNCHANGED <<inputVars, annotVars, filterVars, createVars, tableVars, runVars,
                   io>>

DefaultGoodMask == <<"0", "1", "0">>
OkDistFile == <<WithName(OkDist, colnames[NFIXED]), WithName(OkDist, colnames[NFIXED + 1])>>

\* every -a, -l and <prefix>.n under the default -g, and every -g over one of them
InitReader ==
    /\ InitArgs
    /\ NoTable
    /\ \/ /\ annot_str \in AnnotStrs
          /\ learning_filters \in ReaderFilters
          /\ good_mask = parse_mask(DefaultGoodMask)
          /\ dist_file \in DistFiles
       \/ /\ annot_str = NULL
          /\ learning_filters = NULL
          /\ good_mask \in { parse_mask(g) : g \in GoodMaskStrs }
          /\ dist_file = OkDistFile

NextReader == InitAnnots \/ InitFilters("reading") \/ ReaderNext

SpecReader == InitReader /\ [][NextReader]_vars

(***************************************************************************)
(* Properties of the reader                                                *)
(***************************************************************************)
AssertMsg == "Assertion failed: val>=0 && val<=1"

\* annots_reader_next has returned 1 for the line in `line`
RowRead == pc = "reading" /\ line # <<>>

\* the k-th tab-separated field of a line
Field(ln, k) == split_list(ln, TAB)[k]

ProperDist(d) == DLt(d.scale_min, d.scale_max)

\* C1: under a Dist with scale_min < scale_max a finite value x scales to 0 below
\* scale_min, to 1 above scale_max and to (x - scale_min)/(scale_max - scale_min)
\* in between; every non-missing model value of a row read with scaling on is
\* in [0,1], and the assertion of scale_value never fails.
C1_ScaledIntoUnitInterval ==
    /\ RowRead =>
          \A i \in 0..(nann - 1) :
             LET d == dists[ann2cols[i]]
                 x == raw_vals[i]
             IN  missing[i] = 0 =>
                    /\ ProperDist(d) =>
                          /\ DLt(x, d.scale_min) => vals[i] = Int2Dbl(0)
                          /\ DGt(x, d.scale_max) => vals[i] = Int2Dbl(1)
                          /\ (DGe(x, d.scale_min) /\ DLe(x, d.scale_max)) =>
                                DMul(vals[i], DSub(d.scale_max, d.scale_min))
                                   = DSub(x, d.scale_min)
                    /\ DGe(vals[i], Int2Dbl(0)) /\ DLe(vals[i], Int2Dbl(1))
    /\ ~(pc = "error" /\ err = AssertMsg)

\* C2: the row's mask is 2 if and only if the row's MASK string and the good_mask
\* string have a '1' at a common position (index 0 leftmost), and 1 otherwise.
C2_MaskGoodIffCommonBit ==
    RowRead =>
       \A g \in GoodMaskStrs :
          parse_mask(g) = good_mask =>
             mask = IF \E i \in 1..Len(g) : g[i] = "1" /\ CharAt(Field(line, 3), i) = "1"
                    THEN 2 ELSE 1

\* C4: after a successful read, nset plus the number of model indices flagged
\* missing is nann, and bit i of nset_mask is set exactly for the model indices
\* the row left non-missing.
C4_NsetMissingNann ==
    RowRead =>
       /\ nset + Cardinality({ i \in 0..(nann - 1) : missing[i] # 0 }) = nann
       /\ \A i \in 0..(nann - 1) : BitSet(nset_mask, i) <=> missing[i] = 0
       /\ nset_mask < Pow2(nann)

\* a row with a missing model value and a present one
C4_Witness == RowRead /\ nset >= 1 /\ nset < nann

\* C10: initialisation ends in a fatal error whenever a model column (requested
\* with -a or added by a filter expression) has nall == 0 or scale_min ==
\* scale_max in the loaded distributions, so rows are never read, and never
\* scaled, with such a column in the model.
C10_DegenerateColumnIsFatal ==
    pc = "reading" =>
       \A c \in AnnCols :
          ignore[c] = 0 => dists[c].nall # 0 /\ DNe(dists[c].scale_min, dists[c].scale_max)

(***************************************************************************)
(* The filter parser and evaluator on bounded expressions and vectors      *)
(***************************************************************************)
LexOps == { <<"<">>, <<"<", "=">>, <<"=", "=">>, <<"=">>, <<">", "=">>, <<">">> }
Literals == { <<"0", ".", "5">>, <<"1">> }
AnnotNames == { colnames[c] : c \in AnnCols }

Term(ann, op, lit, swapped) == IF swapped THEN lit \o op \o ann ELSE ann \o op \o lit

Terms1 == { Term(ann, op, lit, sw) :
               ann \in AnnotNames, op \in LexOps, lit \in Literals, sw \in BOOLEAN }
Terms2 == { Term(ann, op, <<"0", ".", "5">>, sw) :
               ann \in AnnotNames, op \in LexOps, sw \in BOOLEAN }

RECURSIVE Repeat(_, _)
Repeat(t, n) == IF n <= 1 THEN t ELSE t \o <<"&">> \o Repeat(t, n - 1)

MaxTerms == 9            \* the longest enumerated run of terms

\* one term; two terms; the example of the documentation with spaces; runs of one
\* term up to MaxTerms; expressions that do not parse
FilterExprs ==
    Terms1
    \cup { t1 \o <<"&">> \o t2 : t1 \in Terms2, t2 \in Terms2 }
    \cup { <<"A", ">", "=", "0", ".", "5", " ", "&", " ", "B", "<", "1">>,
           <<"0", ".", "5", "<", "=", "A", " ", "&", " ", "1", ">", "B">> }
    \cup { Repeat(<<"A", ">", "0", ".", "5">>, n) : n \in 3..MaxTerms }
    \cup { <<"A", "<", ">", "1">>, <<"A", ">">>, <<"C", ">", "1">>, <<"A", ">", "x">>,
           <<"A", "=", "=", "=", "1">> }

VecVals == { Int2Dbl(0), <<1, 2>>, Int2Dbl(1) }

\* failed_filters(&args->filt_learn, args->vals) on the values of a complete row
FailedFilters ==
    /\ pc \in {"filtering", "filtered"}
    /\ \E v \in [0..(nann - 1) -> VecVals] :
          /\ vals' = [i \in 0..(ncols - 1) |-> IF i < nann THEN v[i] ELSE vals[i]]
          /\ failed' = failed_filters(filt_learn, vals')
    /\ pc' = "filtered"
    /\ UNCHANGED <<err, inputVars, annotVars, filt_learn, createVars, tableVars, runVars,
                   line, chr, pos, mask, nset, nset_mask, raw_vals, missing,
                   io>>

InitFilter ==
    /\ InitArgs
    /\ NoTable
    /\ annot_str \in AnnotStrs
    /\ learning_filters \in FilterExprs
    /\ good_mask = parse_mask(DefaultGoodMask)
    /\ dist_file = OkDistFile

NextFilter == InitAnnots \/ InitFilters("filtering") \/ FailedFilters

SpecFilter == InitFilter /\ [][NextFilter]_vars

(***************************************************************************)
(* Properties of the filter parser and evaluator                           *)
(***************************************************************************)
StripSpace(x) == SelectSeq(x, LAMBDA c : ~isspace(c))
TermsOf(x) == split_list(StripSpace(x), "&")

RECURSIVE OpStart(_, _)
OpStart(t, p) == IF CharAt(t, p) \in OpChars \cup {NUL} THEN p ELSE OpStart(t, p + 1)

TermLeft(t) == Sub(t, 1, OpStart(t, 1))
TermOp(t) == Sub(t, OpStart(t, 1), OpEnd(t, OpStart(t, 1)))
TermRight(t) == Sub(t, OpEnd(t, OpStart(t, 1)), Len(t) + 1)

WellFormedTerm(t) ==
    /\ TermOp(t) \in LexOps
    /\ \/ TermLeft(t) \in AnnotNames /\ TermRight(t) \in Literals
       \/ TermLeft(t) \in Literals /\ TermRight(t) \in AnnotNames

WellFormed(x) == \A k \in 1..Len(TermsOf(x)) : WellFormedTerm(TermsOf(x)[k])

LiteralValue(lit) ==
    IF lit = <<"1">> THEN Int2Dbl(1) ELSE <<1, 2>>

\* the comparison a lexical operator denotes
LexHolds(op, x, y) ==
    CASE op = <<"<">> -> DLt(x, y)
      [] op = <<"<", "=">> -> DLe(x, y)
      [] op \in {<<"=", "=">>, <<"=">>} -> DEq(x, y)
      [] op = <<">", "=">> -> DGe(x, y)
      [] op = <<">">> -> DGt(x, y)

\* the value an operand of a term denotes on the vector vec under the index maps
OperandValue(o, vec) ==
    IF o \in AnnotNames THEN vec[col2names[find_col(o, NFIXED)]] ELSE LiteralValue(o)

TermHolds(t, vec) ==
    LexHolds(TermOp(t), OperandValue(TermLeft(t), vec), OperandValue(TermRight(t), vec))

\* C7: bit i of the mask failed_filters returns is set iff predicate i fails, the
\* predicates numbered in the order of the expression, the order of flt_mask_desc.
C7_BitPerPredicateInExpressionOrder ==
    pc = "filtered" =>
       /\ \A i \in 0..(filt_learn.ntot - 1) :
             BitSet(failed, i) <=> ~TermHolds(filt_learn.flt_mask_desc[i + 1], vals)
       /\ failed < Pow2(filt_learn.ntot)

MirrorOp(op) ==
    [k \in 1..Len(op) |-> IF op[k] = "<" THEN ">" ELSE IF op[k] = ">" THEN "<" ELSE op[k]]

\* V op' A for A op V, and the reverse
MirrorTerm(t) == TermRight(t) \o MirrorOp(TermOp(t)) \o TermLeft(t)

RECURSIVE JoinTerms(_)
JoinTerms(ts) ==
    IF Len(ts) = 1 THEN ts[1] ELSE ts[1] \o <<"&">> \o JoinTerms(Tail(ts))

MirrorExpr(x) == JoinTerms([k \in 1..Len(TermsOf(x)) |-> MirrorTerm(TermsOf(x)[k])])

\* the filters without their descriptions
Predicates(f) ==
    [i \in DOMAIN f.filt |->
        [j \in 1..Len(f.filt[i]) |-> [type |-> f.filt[i][j].type, value |-> f.filt[i][j].value]]]

\* C8: an expression and the expression with every term swapped (V op' A for
\* A op V, op' the mirrored operator) parse to the same predicates, which give the
\* same failure mask on every vector.
C8_SwappedTermSamePredicate ==
    pc \in {"filtering", "filtered"} =>
       LET a0 == init_annots(annot_str, dist_file).a
           r == init_filters(a0, MirrorExpr(learning_filters), 0)
       IN  /\ r.err = ""
           /\ Predicates(r.f) = Predicates(filt_learn)
           /\ \A v \in [0..(nann - 1) -> VecVals] :
                 failed_filters(r.f, v) = failed_filters(filt_learn, v)

\* an expression with the literal on the left has been parsed and a vector has
\* failed it
C8_Witness ==
    /\ pc = "filtered"
    /\ failed # 0
    /\ TermLeft(TermsOf(learning_filters)[1]) \in Literals
    /\ TermOp(TermsOf(learning_filters)[1]) = <<"<", "=">>

\* the predicates a 64-bit mask can number, less the one the documentation holds back
PredLimit == 8 * 8 - 1

FilterErrors == { ParseError, "No such annotation is available", "Uh, too many hard-filters" }

\* init_filters has returned or has ended the run
FiltersDone == pc \in {"filtering", "filtered"} \/ (pc = "error" /\ err \in FilterErrors)

\* C9: init_filters accepts every well-formed expression of at most 63 predicates
\* and ends the run exactly when the expression has more than 63.
C9_AbortsExactlyAbove63 ==
    (FiltersDone /\ WellFormed(learning_filters)) =>
       (pc = "error" <=> Len(TermsOf(learning_filters)) > PredLimit)

(***************************************************************************)
(* create_dists: the percentile scan over the sorted scratch file of each  *)
(* column, from the point where the scratch files have been closed         *)
(***************************************************************************)
lo_pctl == <<1, 10>>        \* args->lo_pctl = 0.1
hi_pctl == <<999, 10>>      \* args->hi_pctl = 99.9

\* the e with 10^e <= a < 10^(e+1), for a finite a > 0
RECURSIVE Exp10(_)
Exp10(a) ==
    IF DGe(a, Int2Dbl(10)) THEN Exp10(DDiv(a, Int2Dbl(10))) + 1
    ELSE IF DLt(a, Int2Dbl(1)) THEN Exp10(DMul(a, Int2Dbl(10))) - 1
    ELSE 0

Scale10(a, k) ==
    IF k >= 0 THEN DMul(a, Int2Dbl(Pow10(k))) ELSE DDiv(a, Int2Dbl(Pow10(-k)))

\* the integer nearest to a >= 0, a tie going to the even one
RoundHalfEven(a) ==
    LET q == a[1] \div a[2]
        r == a[1] % a[2]
    IN  IF 2 * r < a[2] THEN q
        ELSE IF 2 * r > a[2] THEN q + 1
        ELSE IF q % 2 = 0 THEN q ELSE q + 1

\* the number fscanf("%le") reads from what fprintf("%le") prints for v: v to one
\* digit before and six after the decimal point of its mantissa
fmt_le(v) ==
    IF ~isfinite(v) \/ v[1] = 0 THEN v
    ELSE LET a == <<Abs(v[1]), v[2]>>
             e == Exp10(a)
             m == RoundHalfEven(Scale10(a, 6 - e))
         IN  Scale10(<<Sign(v[1]) * m, 1>>, e - 6)

\* the stream of "sort -k1,1g" over a scratch file, as runs <<value, lines>> of equal
\* values in increasing order
RECURSIVE sort_g(_)
sort_g(B) ==
    IF DOMAIN B = {} THEN <<>>
    ELSE LET m == CHOOSE v \in DOMAIN B : \A w \in DOMAIN B : DLe(v, w)
         IN  <<<<m, B[m]>>>> \o sort_g([w \in DOMAIN B \ {m} |-> B[w]])

\* 100.*count/nall
pctl(count, nall) == Norm(100 * count, nall)

\* line 468
scan_min(d, count, val) ==
    IF DEq(d.scale_min, HUGE_VAL) \/ DLt(pctl(count, d.nall), lo_pctl) THEN val ELSE d.scale_min

\* line 469 without its test that scale_max is still unset
scan_max_unguarded(d, count, val) ==
    IF DGt(pctl(count, d.nall), hi_pctl) THEN val ELSE d.scale_max

\* line 469
scan_max(d, count, val) ==
    IF DEq(d.scale_max, HUGE_VAL) /\ DGt(pctl(count, d.nall), hi_pctl) THEN val ELSE d.scale_max

MaxV == 1           \* the raw values of a column are 0..MaxV and one of eight digits
BigRun == 1000      \* the lines of a long run of one value

ColValues == { Int2Dbl(v) : v \in 0..MaxV } \cup { Int2Dbl(12345678) }
RunLens == {0, 1, BigRun}

\* what a double may hold before anything is stored in it
Garbage == { Int2Dbl(0), HUGE_VAL, NAN }

\* the scratch file of a column whose non-missing values are printed c[v] times each
ScratchOf(c) == [v \in { w \in DOMAIN c : c[w] > 0 } |-> c[v]]

\* dists[i] after the loop over the rows: the counters, of a table whose rows are all good
Counted(B, nmiss) ==
    [nall |-> BagCardinality(B), ngood |-> BagCardinality(B), nmissing |-> nmiss,
     scale_min |-> Int2Dbl(0), scale_max |-> Int2Dbl(0)]

\* #define IS_GOOD(mask) ((mask)&MASK_GOOD), line 20
IS_GOOD(m) == BitAnd(m, MASK_GOOD) # 0

\* the columns of the table, each with a scratch file
Columns == 0..(ncols - NFIXED - 1)

\* lines 396-414: the arrays that make annots_reader_next return every column as it is
\* written, the counters, and one scratch file per column opened for writing
CreateDistsOpen ==
    /\ pc = "create_dists_open"
    /\ ignore' = [i \in 0..(ncols - 1) |-> 0]
    /\ col2names' = [i \in 0..(ncols - 1) |-> IF i < NFIXED THEN 0 ELSE i - NFIXED]
    /\ missing' = [i \in 0..(ncols - 1) |-> 0]
    /\ nann' = ncols - NFIXED
    /\ cdists' = [i \in Columns |-> Counted(EmptyBag, 0)]
    /\ scratch' = [i \in Columns |-> EmptyBag]
    /\ io' = [io EXCEPT !.fps = Columns, !.tmp = Columns]
    /\ row' = 0
    /\ pc' = "create_dists_rows"
    /\ UNCHANGED <<err, inputVars, ann2cols, nann_som, dists, args_ngood, args_nall,
                   line, chr, pos, mask, nset, nset_mask, vals, raw_vals,
                   filterVars, cd_i, sort_fp, sort_count, sort_val, tableVars,
                   som, ngood_fixed_max, ngood_learn_max, ngood_vals_fixed, ngood_vals_learn,
                   good_vals_fixed, good_vals_learn, sites, trainVars, queryVars, evalVars,
                   callVars>>

\* the body of the loop over the columns, lines 420-437, on the record r
create_dists_row(r, d, i) ==
    IF r.missing[i] # 0 THEN [d EXCEPT !.nmissing = @ + 1]
    ELSE [d EXCEPT !.ngood = IF IS_GOOD(r.mask) THEN @ + 1 ELSE @, !.nall = @ + 1]

\* one iteration of the loop of lines 418-438: the value of every column that is not
\* missing is printed with %le to the scratch file of the column
CreateDistsRow ==
    /\ pc = "create_dists_rows"
    /\ row < Len(table)
    /\ row' = row + 1
    /\ line' = table[row + 1]
    /\ \E r \in { annots_reader_next(table[row + 1], ReaderState) } :
          IF r.err # ""
          THEN /\ pc' = "error" /\ err' = r.err
               /\ UNCHANGED <<chr, pos, mask, nset, nset_mask, vals, raw_vals, missing,
                              scratch, cdists>>
          ELSE /\ SetReaderState(r)
               /\ cdists' = [i \in Columns |-> create_dists_row(r, cdists[i], i)]
               /\ scratch' = [i \in Columns |->
                                 IF r.missing[i] # 0 THEN scratch[i]
                                 ELSE scratch[i] (+) SetToBag({ fmt_le(r.raw_vals[i]) })]
               /\ UNCHANGED <<pc, err>>
    /\ UNCHANGED <<inputVars, annotVars, filterVars, cd_i, sort_fp, sort_count, sort_val,
                   tableVars,
                   som, ngood_fixed_max, ngood_learn_max, ngood_vals_fixed, ngood_vals_learn,
                   good_vals_fixed, good_vals_learn, sites, trainVars, queryVars, evalVars,
                   callVars, io>>

\* the reader is at the end of the table: the arrays are changed back, lines 439-443
CreateDistsRestore ==
    /\ pc = "create_dists_rows"
    /\ row = Len(table)
    /\ ignore' = NULL /\ col2names' = NULL
    /\ cd_i' = 0
    /\ pc' = "create_dists_fclose"
    /\ UNCHANGED <<err, inputVars, ann2cols, nann, nann_som, dists, args_ngood, args_nall,
                   readerVars, filterVars, scratch, cdists, sort_fp, sort_count, sort_val,
                   tableVars, runVars, io>>

\* one iteration of the loop of lines 444-446: fclose(fps[i])
CreateDistsFclose ==
    /\ pc = "create_dists_fclose"
    /\ cd_i < ncols - NFIXED
    /\ io' = [io EXCEPT !.fps = @ \ {cd_i}]
    /\ IF cd_i + 1 < ncols - NFIXED
       THEN cd_i' = cd_i + 1 /\ UNCHANGED pc
       ELSE cd_i' = 0 /\ pc' = "create_dists"
    /\ UNCHANGED <<err, inputVars, annotVars, readerVars, filterVars, scratch, cdists,
                   sort_fp, sort_count, sort_val, tableVars, runVars>>

\* popen of the sort of column cd_i, lines 456-464
CreateDistsSort ==
    /\ pc = "create_dists"
    /\ cd_i < ncols - NFIXED
    /\ sort_fp' = sort_g(scratch[cd_i])
    /\ sort_count' = 0
    /\ sort_val' \in Garbage
    /\ cdists' = [cdists EXCEPT ![cd_i].scale_min = HUGE_VAL, ![cd_i].scale_max = HUGE_VAL]
    /\ io' = [io EXCEPT !.sort = cd_i]
    /\ pc' = "create_dists_scan"
    /\ UNCHANGED <<err, inputVars, annotVars, readerVars, filterVars, tableVars, runVars,
                   scratch, cd_i>>

\* one iteration of the fscanf loop, lines 465-470
CreateDistsScan ==
    /\ pc = "create_dists_scan"
    /\ sort_fp # <<>>
    /\ LET val == sort_fp[1][1]
           count == sort_count + 1
           smin == scan_min(cdists[cd_i], count, val)
           smax == scan_max(cdists[cd_i], count, val)
       IN  /\ sort_val' = val
           /\ sort_count' = count
           /\ cdists' = [cdists EXCEPT ![cd_i].scale_min = smin, ![cd_i].scale_max = smax]
    /\ sort_fp' = IF sort_fp[1][2] = 1 THEN Tail(sort_fp)
                  ELSE <<<<sort_fp[1][1], sort_fp[1][2] - 1>>>> \o Tail(sort_fp)
    /\ UNCHANGED <<pc, err, inputVars, annotVars, readerVars, filterVars, tableVars, runVars,
                   scratch, cd_i,
                   io>>

\* what the sort subprocess may exit with
SortStatus == {0, 1}

\* no status of the subprocess ends the run
pclose_fatal_never(status) == FALSE

\* if ( pclose(fp) ) error(...), line 472
pclose_fatal(status) == status # 0

\* the stream has ended: lines 471-472, the stream is closed
CreateDistsClose ==
    /\ pc = "create_dists_scan"
    /\ sort_fp = <<>>
    /\ cdists' = [cdists EXCEPT ![cd_i].scale_max =
                     IF DEq(@, HUGE_VAL) THEN sort_val ELSE @]
    /\ \E status \in SortStatus :
          /\ io' = [io EXCEPT !.sort = -1, !.status = status]
          /\ IF pclose_fatal(status)
             THEN /\ pc' = "error"
                  /\ err' = "An error occurred while processing"
             ELSE /\ pc' = "create_dists_unlink"
                  /\ UNCHANGED err
    /\ UNCHANGED <<inputVars, annotVars, readerVars, filterVars, tableVars, runVars,
                   scratch, cd_i, sort_fp, sort_count, sort_val>>

\* the scratch file of the column is removed, lines 474-476, and the loop goes on
CreateDistsUnlink ==
    /\ pc = "create_dists_unlink"
    /\ io' = [io EXCEPT !.tmp = @ \ {cd_i}]
    /\ cd_i' = cd_i + 1
    /\ pc' = "create_dists"
    /\ UNCHANGED <<err, inputVars, annotVars, readerVars, filterVars, tableVars, runVars,
                   scratch, cdists, sort_fp, sort_count, sort_val>>

\* <prefix>.n is written, lines 480-490, nann is set back, and init_dists goes on to
\* read the file; InitAnnots is one step that sets nann and the arrays again
CreateDistsWrite ==
    /\ pc = "create_dists"
    /\ cd_i = ncols - NFIXED
    /\ dist_file' = [k \in 1..(ncols - NFIXED) |->
                        [name |-> colnames[NFIXED + k - 1],
                         nall |-> cdists[k - 1].nall,
                         ngood |-> cdists[k - 1].ngood,
                         nmissing |-> cdists[k - 1].nmissing,
                         scale_min |-> fmt_le(cdists[k - 1].scale_min),
                         scale_max |-> fmt_le(cdists[k - 1].scale_max)]]
    /\ nann' = 0
    /\ pc' = "init_annots"
    /\ UNCHANGED <<err, annot_str, learning_filters, good_mask, col2names, ann2cols, ignore,
                   nann_som, dists, args_ngood, args_nall, readerVars,
                   filterVars, createVars, tableVars, runVars,
                   io>>

\* the first column holds any of the values any of the run lengths often, in a table
\* of that many rows and at most one more; the second column is constant or missing
InitDist ==
    /\ pc = "create_dists"
    /\ ArgsZero /\ SomZero /\ NoTable
    /\ annot_str = NULL /\ learning_filters = NULL
    /\ good_mask = parse_mask(DefaultGoodMask)
    /\ dist_file = <<>>
    /\ cd_i = 0 /\ sort_fp = <<>> /\ sort_count = 0 /\ sort_val = Int2Dbl(0)
    /\ io = [NoIo EXCEPT !.tmp = 0..(ncols - NFIXED - 1)]
    /\ \E c \in [{ fmt_le(v) : v \in ColValues } -> RunLens], nmiss \in {0, 1},
          constant \in BOOLEAN :
          LET A == ScratchOf(c)
              nrows == BagCardinality(A) + nmiss
              B == IF constant /\ nrows > 0 THEN [v \in {Int2Dbl(1)} |-> nrows] ELSE EmptyBag
          IN  /\ scratch = [i \in 0..(ncols - NFIXED - 1) |-> IF i = 0 THEN A ELSE B]
              /\ cdists = [i \in 0..(ncols - NFIXED - 1) |->
                              IF i = 0 THEN Counted(A, nmiss)
                              ELSE Counted(B, nrows - BagCardinality(B))]

NextDist ==
    \/ CreateDistsSort
    \/ CreateDistsScan
    \/ CreateDistsClose
    \/ CreateDistsUnlink
    \/ CreateDistsWrite
    \/ InitAnnots

SpecDist == InitDist /\ [][NextDist]_vars

(***************************************************************************)
(* Properties of the percentile scan                                       *)
(***************************************************************************)
\* the column whose scan has just ended, its Dist and the lines that were sorted
ColumnScanned == pc = "create_dists" /\ cd_i > 0
ScannedDist == cdists[cd_i - 1]
ScannedFile == scratch[cd_i - 1]

\* the lines of B whose value is below v
CountLess(B, v) == BagCardinality([w \in { x \in DOMAIN B : DLt(x, v) } |-> B[w]])

\* the k-th smallest value of the lines of B, 1 <= k <= BagCardinality(B)
KthSmallest(B, k) ==
    CHOOSE v \in DOMAIN B : CountLess(B, v) < k /\ k <= CountLess(B, v) + B[v]

LargestValue(B) == CHOOSE v \in DOMAIN B : \A w \in DOMAIN B : DLe(w, v)

LowReached(k, n) == DGe(Norm(100 * k, n), lo_pctl)
HighCrossed(k, n) == DGt(Norm(100 * k, n), hi_pctl)

\* the smallest running count in 1..n at which 100*k/n has reached lo_pctl; 100*k/n
\* grows with k, so it is the count that has reached it while the one before has not
FirstLowCount(n) ==
    CHOOSE k \in 1..n : LowReached(k, n) /\ (k = 1 \/ ~LowReached(k - 1, n))

FirstHighCount(n) ==
    CHOOSE k \in 1..n : HighCrossed(k, n) /\ (k = 1 \/ ~HighCrossed(k - 1, n))

\* C5: for a column of nall >= 1 sorted values, scale_min is the k-th smallest
\* value, k the smallest running count with 100*k/nall >= lo_pctl.
C5_ScaleMinAtFirstLowCount ==
    (ColumnScanned /\ ScannedDist.nall >= 1) =>
       DEq(ScannedDist.scale_min, KthSmallest(ScannedFile, FirstLowCount(ScannedDist.nall)))

\* C6: for a column of nall >= 1 sorted values, scale_max is the k-th smallest
\* value, k the smallest running count with 100*k/nall > hi_pctl, or the largest
\* value if no count crosses hi_pctl; and scale_min <= scale_max.
C6_ScaleMaxAtFirstHighCount ==
    (ColumnScanned /\ ScannedDist.nall >= 1) =>
       /\ DEq(ScannedDist.scale_max,
              IF \E k \in 1..ScannedDist.nall : HighCrossed(k, ScannedDist.nall)
              THEN KthSmallest(ScannedFile, FirstHighCount(ScannedDist.nall))
              ELSE LargestValue(ScannedFile))
       /\ DLe(ScannedDist.scale_min, ScannedDist.scale_max)

\* a column in which hi_pctl is crossed before the last line, at a smaller value
C6_Witness ==
    /\ ColumnScanned
    /\ ScannedDist.nall >= 1
    /\ DLt(ScannedDist.scale_max, LargestValue(ScannedFile))
    /\ DLt(ScannedDist.scale_min, ScannedDist.scale_max)

(***************************************************************************)
(* som_init and the scoring loop of eval_filters                           *)
(***************************************************************************)
\* -m: nbin, learn, th, nsom; -n: nt before som_init1 (0: as many as good sites)
SomParams == [nbin |-> 1, learn |-> <<1, 10>>, th |-> <<1, 5>>, nsom |-> 1, nt |-> 0]

RAND_MAX == 2       \* random() returns 0..RAND_MAX

\* (int) x for a finite x: the fraction is dropped
trunc(x) == IF x[1] >= 0 THEN x[1] \div x[2] ELSE -((-x[1]) \div x[2])

\* som_init1 on the template args->som, then som_init_rand with the values rnd of random()
som_init1(kdim, template, ngood, rnd) ==
    [nbin |-> template.nbin, learn |-> template.learn, th |-> template.th,
     nsom |-> template.nsom, kdim |-> kdim,
     nt |-> IF template.nt = 0 \/ template.nt > ngood THEN ngood ELSE template.nt,
     w |-> [i \in 0..(template.nbin * template.nbin * kdim * template.nsom - 1) |->
               Norm(rnd[i], RAND_MAX)],
     c |-> [i \in 0..(template.nbin * template.nbin * template.nsom - 1) |-> Int2Dbl(0)],
     t |-> [i \in 0..(template.nsom - 1) |-> 0]]

\* the test that nothing tells a row with a missing annotation from a complete one
row_incomplete_never(ns, na) == FALSE

\* args->nset != args->nann
row_incomplete(ns, na) == ns # na

\* the first nann_som values of args->vals
som_vec(v, kdim) == [j \in 0..(kdim - 1) |-> v[j]]

\* the slot a vector goes to, and the counter after it: lines 984-990 and 997-1003
reservoir_slot(nvals, max, r) ==
    IF nvals < max THEN [i |-> nvals, n |-> nvals + 1]
    ELSE [i |-> trunc(Norm((max - 1) * r, RAND_MAX)), n |-> nvals]

\* good_vals[i*nann_som + j] = args->vals[j]; slots are kept as a sequence, slot i at i+1
reservoir_put(res, i, vec) ==
    IF i + 1 > Len(res) THEN Append(res, vec) ELSE [res EXCEPT ![i + 1] = vec]

\* i*nann_som + j is inside the array malloc'ed for max vectors
in_reservoir(i, max) == 0 <= i /\ i < max

\* lines 952-962
SomInitBegin ==
    /\ pc = "som_init"
    /\ \E rnd \in [0..(SomParams.nbin * SomParams.nbin * nann_som * SomParams.nsom - 1)
                     -> 0..RAND_MAX] :
          som' = som_init1(nann_som, SomParams, args_ngood, rnd)
    /\ ngood_fixed_max' = trunc(DMul(Int2Dbl(som'.nt), DSub(Int2Dbl(1), nt_learn_frac)))
    /\ ngood_learn_max' = trunc(DMul(Int2Dbl(som'.nt), nt_learn_frac))
    /\ ngood_vals_fixed' = 0 /\ ngood_vals_learn' = 0
    /\ good_vals_fixed' = <<>> /\ good_vals_learn' = <<>>
    /\ row' = 0
    /\ stored' = NoWrite /\ calls' = <<>>
    /\ pc' = "som_init_rows"
    /\ UNCHANGED <<err, inputVars, annotVars, readerVars, filterVars, createVars, tableVars,
                   sites, queryVars, evalVars,
                   callVars, io>>

\* lines 984-992 on the learn reservoir, lines 997-1005 on the fixed one: the write of
\* vec at the slot s of the reservoir res. A write outside the array (its size is
\* negative, malloc returned NULL) ends the run with a segmentation fault.
SomInitStore(res, s, max, vec) ==
    /\ stored' = [res |-> res, i |-> s.i]
    /\ IF in_reservoir(s.i, max)
       THEN /\ UNCHANGED <<pc, err>>
            /\ IF res = "learn"
               THEN /\ ngood_vals_learn' = s.n
                    /\ good_vals_learn' = reservoir_put(good_vals_learn, s.i, vec)
                    /\ UNCHANGED <<ngood_vals_fixed, good_vals_fixed>>
               ELSE /\ ngood_vals_fixed' = s.n
                    /\ good_vals_fixed' = reservoir_put(good_vals_fixed, s.i, vec)
                    /\ UNCHANGED <<ngood_vals_learn, good_vals_learn>>
       ELSE /\ pc' = "error" /\ err' = "SIGSEGV"
            /\ UNCHANGED <<ngood_vals_fixed, ngood_vals_learn, good_vals_fixed, good_vals_learn>>

\* the row is not sampled: one of the continue statements of the loop
SomInitSkip ==
    /\ stored' = NoWrite
    /\ UNCHANGED <<pc, err, ngood_vals_fixed, ngood_vals_learn, good_vals_fixed, good_vals_learn>>

\* one iteration of the sampling loop, lines 963-1007
SomInitRow ==
    /\ pc = "som_init_rows"
    /\ row < Len(table)
    /\ row' = row + 1
    /\ line' = table[row + 1]
    /\ \E r \in { annots_reader_next(table[row + 1], ReaderState) } :
           IF r.err # ""
           THEN /\ pc' = "error" /\ err' = r.err
                /\ UNCHANGED <<chr, pos, mask, nset, nset_mask, vals, raw_vals, missing,
                               ngood_vals_fixed, ngood_vals_learn,
                               good_vals_fixed, good_vals_learn, stored>>
           ELSE /\ SetReaderState(r)
                /\ IF row_incomplete(r.nset, nann)
                   THEN SomInitSkip
                   ELSE IF ~IS_GOOD(r.mask)
                   THEN IF \/ filt_learn.nfilt = NULL
                           \/ ngood_learn_max = 0
                           \/ failed_filters(filt_learn, r.vals) # 0
                        THEN SomInitSkip
                        ELSE \E rnd \in 0..RAND_MAX :
                                \E s \in { reservoir_slot(ngood_vals_learn,
                                                          ngood_learn_max, rnd) } :
                                   SomInitStore("learn", s, ngood_learn_max,
                                                som_vec(r.vals, nann_som))
                   ELSE IF ngood_fixed_max = 0
                        THEN SomInitSkip
                        ELSE \E rnd \in 0..RAND_MAX :
                                \E s \in { reservoir_slot(ngood_vals_fixed,
                                                          ngood_fixed_max, rnd) } :
                                   SomInitStore("fixed", s, ngood_fixed_max,
                                                som_vec(r.vals, nann_som))
    /\ UNCHANGED <<inputVars, annotVars, filterVars, createVars, tableVars,
                   som, ngood_fixed_max, ngood_learn_max, sites, calls, queryVars, evalVars,
                   callVars, io>>

\* the training loops with the learn reservoir trained before the fixed one
train_arg_learn_first(i, nfixed, nlearn) ==
    IF i < nlearn THEN [res |-> "learn", slot |-> i] ELSE [res |-> "fixed", slot |-> i - nlearn]

\* the argument of the som_train call number i of lines 1011-1012
train_arg(i, nfixed, nlearn) ==
    IF i < nfixed THEN [res |-> "fixed", slot |-> i] ELSE [res |-> "learn", slot |-> i - nfixed]

\* lines 1008-1009
SomInitShrink ==
    /\ pc = "som_init_rows"
    /\ row = Len(table)
    /\ som' = [som EXCEPT !.nt = IF ngood_vals_learn + ngood_vals_fixed < som.nt
                                 THEN ngood_vals_learn + ngood_vals_fixed ELSE som.nt]
    /\ pc' = "som_train"
    /\ UNCHANGED <<err, inputVars, annotVars, readerVars, filterVars, createVars, tableVars,
                   row, ngood_fixed_max, ngood_learn_max, ngood_vals_fixed, ngood_vals_learn,
                   good_vals_fixed, good_vals_learn, sites, trainVars, queryVars, evalVars,
                   callVars, io>>

\* what one som_train call may leave in a map of one cell (nbin = 1, nsom = 1): the
\* weights move towards the vector by an influence learn * exp(-t/nt), an exponential
\* that is not computed here; every weight ranges over TrainedWeights, and the
\* influence added to the count is learn at t = 0 and a part of it later
TrainedWeights == { Int2Dbl(0), <<1, 2>>, Int2Dbl(1) }
TrainedInfluence(s) ==
    IF s.t[0] = 0 THEN s.learn ELSE DMul(s.learn, <<1, 2>>)

\* one iteration of the loops of lines 1011-1012: som_train(good_som, &good_vals[i*nann_som])
SomTrainCall ==
    /\ pc = "som_train"
    /\ Len(calls) < ngood_vals_fixed + ngood_vals_learn
    /\ \E a \in { train_arg(Len(calls), ngood_vals_fixed, ngood_vals_learn) } :
          calls' = Append(calls,
                     [fn |-> "som_train", res |-> a.res, slot |-> a.slot,
                      vec |-> IF a.res = "fixed" THEN good_vals_fixed[a.slot + 1]
                              ELSE good_vals_learn[a.slot + 1]])
    /\ \E w \in [DOMAIN som.w -> TrainedWeights] :
          som' = [som EXCEPT !.w = w,
                             !.c[0] = DAdd(@, TrainedInfluence(som)),
                             !.t[0] = @ + 1]
    /\ UNCHANGED <<pc, err, inputVars, annotVars, readerVars, filterVars, createVars,
                   tableVars, row, ngood_fixed_max, ngood_learn_max,
                   ngood_vals_fixed, ngood_vals_learn, good_vals_fixed, good_vals_learn,
                   sites, stored, queryVars, evalVars,
                   callVars, io>>

\* both loops are done: free(good_vals_fixed), free(good_vals_learn), lines 1013-1014
SomTrainDone ==
    /\ pc = "som_train"
    /\ Len(calls) = ngood_vals_fixed + ngood_vals_learn
    /\ pc' = "som_norm"
    /\ UNCHANGED <<err, inputVars, annotVars, readerVars, filterVars, createVars, tableVars,
                   runVars,
                   io>>

\* the squared distance of vec to the weights at w[base..base+kdim-1], summed from k on
RECURSIVE sq_dist(_, _, _, _, _)
sq_dist(w, vec, base, kdim, k) ==
    IF k >= kdim THEN Int2Dbl(0)
    ELSE LET d == DSub(vec[k], w[base + k])
         IN  DAdd(DMul(d, d), sq_dist(w, vec, base, kdim, k + 1))

\* the tests that take a cell with a count above the threshold only, and every cell
cell_active_strict(cnt, th) == DGt(cnt, th)
cell_active_always(cnt, th) == TRUE

\* *cnt >= som->th
cell_active(cnt, th) == DGe(cnt, th)

\* the loops over i and j of som_calc_dist for map js, from cell on
RECURSIVE som_map_dist(_, _, _, _, _)
som_map_dist(s, vec, js, cell, min_dist) ==
    IF cell >= s.nbin * s.nbin THEN min_dist
    ELSE LET at == js * s.nbin * s.nbin + cell
             dist == sq_dist(s.w, vec, at * s.kdim, s.kdim, 0)
         IN  som_map_dist(s, vec, js, cell + 1,
                          IF cell_active(s.c[at], s.th) /\ DLt(dist, min_dist)
                          THEN dist ELSE min_dist)

RECURSIVE som_calc_dist_from(_, _, _, _)
som_calc_dist_from(s, vec, js, min_som_dist) ==
    IF js >= s.nsom THEN min_som_dist
    ELSE LET min_dist == som_map_dist(s, vec, js, 0, HUGE_VAL)
         IN  som_calc_dist_from(s, vec, js + 1,
                                IF DGt(min_som_dist, min_dist) THEN min_dist ELSE min_som_dist)

som_calc_dist(s, vec) == som_calc_dist_from(s, vec, 0, HUGE_VAL)

\* the first loop over i of som_norm for the map at c = som->c + j*n2: the comparison
\* reads som->c[i], the assignment c[i]
RECURSIVE som_norm_max(_, _, _, _, _)
som_norm_max(c, j, n2, i, max) ==
    IF i >= n2 THEN max
    ELSE som_norm_max(c, j, n2, i + 1, IF DLt(max, c[i]) THEN c[j * n2 + i] ELSE max)

\* the loop over j of som_norm, from map j on, on the counts c
RECURSIVE som_norm_from(_, _, _, _)
som_norm_from(c, j, n2, nsom) ==
    IF j >= nsom THEN c
    ELSE LET max == som_norm_max(c, j, n2, 0, Int2Dbl(0))
         IN  som_norm_from(IF max # Int2Dbl(0)
                           THEN [i \in DOMAIN c |->
                                    IF j * n2 <= i /\ i < (j + 1) * n2 THEN DDiv(c[i], max) ELSE c[i]]
                           ELSE c,
                           j + 1, n2, nsom)

som_norm(s) == [s EXCEPT !.c = som_norm_from(s.c, 0, s.nbin * s.nbin, s.nsom)]

\* som_norm(good_som), line 1016
SomNormCall(next) ==
    /\ pc = "som_norm"
    /\ som' = som_norm(som)
    /\ calls' = Append(calls, [fn |-> "som_norm", res |-> "", slot |-> 0, vec |-> <<>>])
    /\ pc' = next
    /\ UNCHANGED <<err, inputVars, annotVars, readerVars, filterVars, createVars, tableVars,
                   row, ngood_fixed_max, ngood_learn_max, ngood_vals_fixed, ngood_vals_learn,
                   good_vals_fixed, good_vals_learn, sites, stored, queryVars, evalVars,
                   callVars, io>>

\* args->filt_type, set in main_vcfsom and by -t
filt_type == "VCF_SNP"

bcf_acgt2int(c) ==
    CASE c \in {"A", "a"} -> 0
      [] c \in {"C", "c"} -> 1
      [] c \in {"G", "g"} -> 2
      [] c \in {"T", "t"} -> 3
      [] OTHER -> -1

\* determine_variant_class without an indel context (no -F)
determine_variant_class(ref, alt) ==
    IF filt_type = "VCF_SNP"
    THEN IF Abs(bcf_acgt2int(CharAt(ref, 1)) - bcf_acgt2int(CharAt(alt, 1))) = 2 THEN 1 ELSE 0
    ELSE 2

\* the score that is the distance itself
site_score_raw(dist, max_dist) == dist

\* double score = dist/max_dist, line 1092
site_score(dist, max_dist) == DDiv(dist, max_dist)

\* the scoring loop that counts no record as good
counts_as_good_never(m) == FALSE

\* if ( IS_GOOD(args->mask) ) ngood++, line 1088
counts_as_good(m) == IS_GOOD(m)

\* lines 1068-1081: the sites file is opened and its header written
EvalBegin ==
    /\ pc = "eval_filters"
    /\ sites' = <<>>
    /\ row' = 0
    /\ eval_ngood' = 0 /\ eval_nall' = 0
    /\ io' = [io EXCEPT !.sites = "open"]
    /\ pc' = "eval_rows"
    /\ UNCHANGED <<err, inputVars, annotVars, readerVars, filterVars, createVars, tableVars,
                   som, ngood_fixed_max, ngood_learn_max, ngood_vals_fixed, ngood_vals_learn,
                   good_vals_fixed, good_vals_learn, trainVars, queryVars,
                   loopVars,
                   callVars>>

\* one iteration of the scoring loop, lines 1082-1096; max_dist is good_som->kdim
EvalRow ==
    /\ pc = "eval_rows"
    /\ row < Len(table)
    /\ row' = row + 1
    /\ line' = table[row + 1]
    /\ \E r \in { annots_reader_next(table[row + 1], ReaderState) } :
          IF r.err # ""
          THEN /\ pc' = "error" /\ err' = r.err
               /\ UNCHANGED <<chr, pos, mask, nset, nset_mask, vals, raw_vals, missing, sites,
                              queryVars, eval_ngood, eval_nall>>
          ELSE /\ SetReaderState(r)
               /\ UNCHANGED <<pc, err>>
               /\ IF row_incomplete(r.nset, nann)
                  THEN UNCHANGED <<sites, queryVars, eval_ngood, eval_nall>>
                  ELSE \E dist \in { som_calc_dist(som, r.vals) },
                          f \in { split_list(table[row + 1], TAB) } :
                          \E score \in { site_score(dist, Int2Dbl(som.kdim)) } :
                             /\ qvec' = som_vec(r.vals, som.kdim)
                             /\ qdist' = dist
                             /\ eval_ngood' = IF counts_as_good(r.mask) THEN eval_ngood + 1
                                              ELSE eval_ngood
                             /\ eval_nall' = eval_nall + 1
                             /\ sites' = Append(sites,
                                   [score |-> fmt_le(score),
                                    class |-> determine_variant_class(f[4], f[5]),
                                    good |-> IF IS_GOOD(r.mask) THEN 1 ELSE 0,
                                    chr |-> r.chr, pos |-> r.pos])
    /\ UNCHANGED <<inputVars, annotVars, filterVars, createVars, tableVars,
                   som, ngood_fixed_max, ngood_learn_max, ngood_vals_fixed, ngood_vals_learn,
                   good_vals_fixed, good_vals_learn, trainVars, loopVars,
                   callVars, io>>

\* the scoring loop has read the last line: line 1097
EvalClose ==
    /\ pc = "eval_rows"
    /\ row = Len(table)
    /\ io' = [io EXCEPT !.sites = "closed"]
    /\ pc' = "eval_popen"
    /\ UNCHANGED <<err, inputVars, annotVars, readerVars, filterVars, createVars, tableVars,
                   runVars>>

\* the sort of the sites is started and <prefix>.tab opened: lines 1101-1127
EvalPopen ==
    /\ pc = "eval_popen"
    /\ io' = [io EXCEPT !.evsort = TRUE]
    /\ pc' = "evaluate"
    /\ UNCHANGED <<err, inputVars, annotVars, readerVars, filterVars, createVars, tableVars,
                   runVars>>

(***************************************************************************)
(* The evaluation loop of eval_filters                                     *)
(***************************************************************************)
\* what fprintf prints for v with %.<d>f, as a number
fmt_f(v, d) ==
    IF ~isfinite(v) THEN v
    ELSE Norm(Sign(v[1]) * RoundHalfEven(Scale10(<<Abs(v[1]), v[2]>>, d)), Pow10(d))

\* fabs
fabs(x) == <<Abs(x[1]), x[2]>>

metric_th == <<1, 200>>     \* double metric_th = 0.005

\* the gate that never closes
gate_closed_never(n_read, n_all) == FALSE

\* (double)nall_read/nall < 0.1
gate_closed(n_read, n_all) == DLt(Norm(n_read, n_all), <<1, 10>>)

\* line 1157 on nclass, lines 1161-1163 on nclass_novel
class_ratio(nc) ==
    IF filt_type = "VCF_SNP" THEN Norm(nc[1], nc[0]) ELSE Norm(nc[1], nc[1] + nc[0])
eval_metric(nc) == class_ratio(nc)
eval_metric_novel(ncn) == IF ncn[0] = 0 THEN Int2Dbl(0) ELSE class_ratio(ncn)

\* prev_metric==-1 || fabs(prev_metric - metric)>metric_th
metric_moved(prev, metric) ==
    DEq(prev, Int2Dbl(-1)) \/ DGt(fabs(DSub(prev, metric)), metric_th)

\* the test that counts every record that is not good as novel
novel_counted_always(m, n_good) == BitAnd(m, 1) = 0

\* the else branch of line 1152 is taken and counts: !(mask&1) && ngood
novel_counted(m, n_good) == BitAnd(m, 1) = 0 /\ n_good # 0

\* the fields of the line of line 1164
eval_row(metric, n_read, n_good_read, n_good, ncn, dist) ==
    [metric |-> fmt_f(metric, 3),
     nAll |-> n_read,
     sensitivity |-> fmt_f(IF n_good # 0 THEN Norm(100 * n_good_read, n_good)
                           ELSE Int2Dbl(0), 2),
     novel |-> fmt_f(eval_metric_novel(ncn), 3),
     threshold |-> fmt_le(dist)]

\* one iteration of the loop of lines 1129-1167 on a line of the sorted sites that is
\* not the header; lines is what ks_getline may hand over next
EvalNext(lines) ==
    /\ pc = "evaluate"
    /\ \E ln \in lines :
          \E nc \in { [nclass EXCEPT ![ln.class] = @ + 1] },
             ncn \in { IF novel_counted(ln.mask, eval_ngood)
                       THEN [nclass_novel EXCEPT ![ln.class] = @ + 1] ELSE nclass_novel },
             ngr \in { IF BitAnd(ln.mask, 1) # 0 THEN ngood_read + 1 ELSE ngood_read } :
             /\ eval_line' = ln
             /\ nall_read' = nall_read + 1
             /\ nclass' = nc
             /\ ngood_read' = ngr
             /\ nclass_novel' = ncn
             /\ IF gate_closed(nall_read + 1, eval_nall)
                THEN UNCHANGED <<prev_metric, out>>
                ELSE \E metric \in { eval_metric(nc) } :
                        IF metric_moved(prev_metric, metric)
                        THEN /\ out' = Append(out, eval_row(metric, nall_read + 1, ngr,
                                                            eval_ngood, ncn, ln.score))
                             /\ prev_metric' = metric
                        ELSE UNCHANGED <<prev_metric, out>>
    /\ UNCHANGED <<pc, err, inputVars, annotVars, readerVars, filterVars, createVars, tableVars,
                   somVars, trainVars, queryVars, eval_ngood, eval_nall,
                   callVars, io>>

\* ks_getline finds the end of the stream: lines 1168-1171
EvalDone(lines) ==
    /\ pc = "evaluate"
    /\ lines = {}
    /\ io' = [io EXCEPT !.evsort = FALSE]
    /\ pc' = "done"
    /\ UNCHANGED <<err, inputVars, annotVars, readerVars, filterVars, createVars, tableVars,
                   runVars>>

(***************************************************************************)
(* The run from init_data to the end of the scoring loop                   *)
(***************************************************************************)
MaxRows == 3        \* the longest enumerated table

\* good and other rows with both annotations, and rows with one annotation missing
\* (the first annotation column is read from its second character on)
TableLines ==
    { TableLine(<<"0", "1", "0">>, <<"0", "2">>, <<"2">>),
      TableLine(<<"0", "1", "0">>, <<"0", "3">>, <<"1">>),
      TableLine(<<"0", "0", "0">>, <<"0", "3">>, <<"1">>),
      TableLine(<<"0", "0", "0">>, <<"0", "2">>, <<"3">>),
      TableLine(<<"0", "1", "0">>, <<"0", "2">>, <<".">>),
      TableLine(<<"0", "0", "0">>, <<"0", ".">>, <<"2">>),
      TableLine(<<"0", "1", "0">>, <<".">>, <<"2">>) }

RECURSIVE Tables(_)
Tables(n) ==
    IF n = 0 THEN { <<>> }
    ELSE Tables(n - 1) \cup { Append(t, l) : t \in { u \in Tables(n - 1) : Len(u) = n - 1 },
                                             l \in TableLines }

\* <prefix>.n of a table with two good rows
TwoGood == [nall |-> 3, ngood |-> 2, nmissing |-> 1,
            scale_min |-> Int2Dbl(1), scale_max |-> Int2Dbl(3)]

\* the second field of -n as main_vcfsom leaves it: 0, 0.5 (or 50), 1 and 150, which
\* is above 1 and is multiplied by 0.01
LearnFracs == { Int2Dbl(0), <<1, 2>>, Int2Dbl(1), <<3, 2>> }

Init ==
    /\ InitArgs
    /\ \/ annot_str = NULL /\ learning_filters = NULL
       \/ annot_str = <<"A">> /\ learning_filters = NULL
       \/ annot_str = <<"A">> /\ learning_filters = <<"B", "<", "2">>
    /\ good_mask = parse_mask(DefaultGoodMask)
    /\ dist_file = <<WithName(TwoGood, colnames[NFIXED]), WithName(TwoGood, colnames[NFIXED + 1])>>
    /\ table \in Tables(MaxRows)
    /\ nt_learn_frac \in LearnFracs

\* "sort -k1,1g" puts the line a before the line b: by the score, and lines of one
\* score by their bytes, which are those of the class and of the mask
site_before(a, b) ==
    \/ DLt(a.score, b.score)
    \/ /\ DEq(a.score, b.score)
       /\ \/ a.class < b.class
          \/ a.class = b.class /\ a.good < b.good

\* the records of the sites file as the sort pipeline of line 1106 hands them over
RECURSIVE sort_sites(_)
sort_sites(s) ==
    IF s = <<>> THEN <<>>
    ELSE LET i == CHOOSE k \in 1..Len(s) :
                     /\ \A j \in 1..Len(s) : ~site_before(s[j], s[k])
                     /\ \A j \in 1..(k - 1) : site_before(s[k], s[j])
         IN  <<s[i]>> \o sort_sites(SubSeq(s, 1, i - 1) \o SubSeq(s, i + 1, Len(s)))

\* the line ks_getline hands over next, cut to its first three fields
SiteLines ==
    IF nall_read < Len(sites)
    THEN { [score |-> x.score, class |-> x.class, mask |-> x.good] :
              x \in { sort_sites(sites)[nall_read + 1] } }
    ELSE {}

Next ==
    \/ InitAnnots
    \/ InitFilters("som_init")
    \/ SomInitBegin
    \/ SomInitRow
    \/ SomInitShrink
    \/ SomTrainCall
    \/ SomTrainDone
    \/ SomNormCall("eval_filters")
    \/ EvalBegin
    \/ EvalRow
    \/ EvalClose
    \/ EvalPopen

Spec == Init /\ [][Next]_vars

(***************************************************************************)
(* Properties of the sampling and scoring passes                           *)
(***************************************************************************)
\* a step of the pass at p that reads one more row
RowStep(p) == pc = p /\ pc' = p /\ row' = row + 1

Reservoirs == <<good_vals_fixed, good_vals_learn, ngood_vals_fixed, ngood_vals_learn>>

\* C3: a row in which an annotation of the model is missing (nset != nann) is put
\* in neither reservoir and gives no record of the sites file; a row with
\* nset = nann gives exactly one record.
C3_IncompleteRowsDropped ==
    [][ /\ (RowStep("som_init_rows") /\ (nset' # nann \/ \E i \in 0..(nann - 1) : missing'[i] # 0))
            => UNCHANGED Reservoirs
        /\ (RowStep("eval_rows") /\ (nset' # nann \/ \E i \in 0..(nann - 1) : missing'[i] # 0))
            => sites' = sites
        /\ (RowStep("eval_rows") /\ nset' = nann)
            => /\ Len(sites') = Len(sites) + 1
               /\ SubSeq(sites', 1, Len(sites)) = sites
               /\ sites'[Len(sites')].chr = chr' /\ sites'[Len(sites')].pos = pos' ]_vars

\* a complete row has been sampled and scored, and a later row with a missing
\* annotation has been read by the scoring loop and has left no record
C3_Witness ==
    /\ pc = "eval_rows"
    /\ row >= 2
    /\ nset # nann
    /\ Len(sites) = row - 1
    /\ ngood_vals_fixed + ngood_vals_learn >= 1

(***************************************************************************)
(* som_norm and som_calc_dist on any trained grid                          *)
(***************************************************************************)
\* -m nbin,learn,th,nsom and the number of annotations of the model
SomShapes ==
    { [nbin |-> 1, nsom |-> 1, kdim |-> 2],
      [nbin |-> 2, nsom |-> 1, kdim |-> 1],
      [nbin |-> 1, nsom |-> 2, kdim |-> 1] }

\* what som_train leaves in a cell: a weight in [0,1], a sum of influences as its count
WeightVals == { Int2Dbl(0), Int2Dbl(1) }
CountVals == { Int2Dbl(0), <<1, 2>>, Int2Dbl(2) }
\* the third field of -m, read by sscanf with %le
ThVals == { Int2Dbl(0), <<1, 5>>, Int2Dbl(1), Int2Dbl(2) }
\* the scaled annotations of a row
QueryVals == { Int2Dbl(0), <<1, 4>>, Int2Dbl(1) }

\* good_som after the last som_train call of som_init
SomGrids ==
    UNION { { [nbin |-> sh.nbin, learn |-> SomParams.learn, th |-> th, nsom |-> sh.nsom,
               kdim |-> sh.kdim, nt |-> 1, w |-> w, c |-> c,
               t |-> [j \in 0..(sh.nsom - 1) |-> 0]] :
              th \in ThVals,
              w \in [0..(sh.nbin * sh.nbin * sh.kdim * sh.nsom - 1) -> WeightVals],
              c \in [0..(sh.nbin * sh.nbin * sh.nsom - 1) -> CountVals] } : sh \in SomShapes }

\* som_calc_dist(args->good_som, args->vals), line 1086, on any vector
SomCalcDistCall ==
    /\ pc = "som_calc_dist"
    /\ \E v \in [0..(som.kdim - 1) -> QueryVals] :
          \E d \in { som_calc_dist(som, v) } :
              qvec' = v /\ qdist' = d
    /\ UNCHANGED <<pc, err, inputVars, annotVars, readerVars, filterVars, createVars, tableVars,
                   somVars, trainVars, evalVars,
                   callVars, io>>

InitSom ==
    /\ pc = "som_norm"
    /\ ArgsZero /\ CreateZero /\ NoTable
    /\ annot_str = NULL /\ learning_filters = NULL
    /\ good_mask = parse_mask(DefaultGoodMask)
    /\ dist_file = <<>>
    /\ som \in SomGrids
    /\ row = 0
    /\ ngood_fixed_max = 0 /\ ngood_learn_max = 0
    /\ ngood_vals_fixed = 0 /\ ngood_vals_learn = 0
    /\ good_vals_fixed = <<>> /\ good_vals_learn = <<>>
    /\ sites = <<>>
    /\ LaterZero

NextSom == SomNormCall("som_calc_dist") \/ SomCalcDistCall

SpecSom == InitSom /\ [][NextSom]_vars

\* the counts of map j
MapCounts(s, j) == { s.c[i] : i \in (j * s.nbin * s.nbin)..((j + 1) * s.nbin * s.nbin - 1) }

\* C11: after som_norm the counts of every map lie in [0,1] and their maximum is
\* 0 (the map was never trained) or exactly 1.
C11_CountsNormalisedPerMap ==
    pc = "som_calc_dist" =>
        \A j \in 0..(som.nsom - 1) :
            /\ \A x \in MapCounts(som, j) : DGe(x, Int2Dbl(0)) /\ DLe(x, Int2Dbl(1))
            /\ \/ MapCounts(som, j) = { Int2Dbl(0) }
               \/ Int2Dbl(1) \in MapCounts(som, j)

RECURSIVE DSum(_)
DSum(xs) == IF xs = <<>> THEN Int2Dbl(0) ELSE DAdd(Head(xs), DSum(Tail(xs)))

\* the squared Euclidean distance between vec and the prototype of cell at
CellDist(s, vec, at) ==
    DSum([k \in 1..s.kdim |->
            DMul(DSub(vec[k - 1], s.w[at * s.kdim + k - 1]),
                 DSub(vec[k - 1], s.w[at * s.kdim + k - 1]))])

\* the cells of all maps whose count reaches the activation threshold
ActiveCells(s) == { at \in DOMAIN s.c : DGe(s.c[at], s.th) }

Queried == pc = "som_calc_dist" /\ qvec # <<>>

\* C12: som_calc_dist returns the least squared distance between the vector and
\* the prototype of a cell, of any map, whose count is at least the threshold;
\* cells below the threshold do not count, and with no cell at the threshold the
\* result is HUGE_VAL.
C12_MinOverActiveCells ==
    Queried =>
        IF ActiveCells(som) = {}
        THEN qdist = HUGE_VAL
        ELSE \E at \in ActiveCells(som) :
                /\ qdist = CellDist(som, qvec, at)
                /\ \A b \in ActiveCells(som) : DLe(qdist, CellDist(som, qvec, b))

\* a cell below the threshold is nearer to the vector than the value returned,
\* which is the distance to a cell of the second map
C12_Witness ==
    /\ Queried
    /\ som.nsom = 2
    /\ isfinite(qdist)
    /\ \E at \in DOMAIN som.c :
          /\ DLt(som.c[at], som.th)
          /\ DLt(CellDist(som, qvec, at), qdist)
    /\ qdist = CellDist(som, qvec, 1)

\* a single map whose counts are zero except at cell (0,0)
OnlyCell00(s) ==
    /\ s.nsom = 1
    /\ s.c[0] # Int2Dbl(0)
    /\ \A i \in DOMAIN s.c : i # 0 => s.c[i] = Int2Dbl(0)

\* C13 as stated: on such a map som_calc_dist returns the squared distance to the
\* weights of cell (0,0), whatever the vector, the other weights and the threshold.
C13_OnlyCell00Counts ==
    (Queried /\ OnlyCell00(som)) => qdist = CellDist(som, qvec, 0)

\* C13 amended: the same for every threshold th with 0 < th <= count of cell (0,0).
C13_OnlyCell00CountsWithinTh ==
    (Queried /\ OnlyCell00(som) /\ DGt(som.th, Int2Dbl(0)) /\ DLe(som.th, som.c[0]))
        => qdist = CellDist(som, qvec, 0)

\* another cell of the map is nearer to the vector than cell (0,0), and the
\* distance to cell (0,0) is returned
C13_Witness ==
    /\ Queried /\ OnlyCell00(som)
    /\ som.nbin = 2
    /\ DGt(som.th, Int2Dbl(0)) /\ DLe(som.th, som.c[0])
    /\ \E at \in DOMAIN som.c : DLt(CellDist(som, qvec, at), CellDist(som, qvec, 0))
    /\ qdist = CellDist(som, qvec, 0)

(***************************************************************************)
(* Properties of the sampling, training and scoring passes of the run      *)
(***************************************************************************)
\* the least squared distance to the prototype of a cell at the threshold
NearestActive(s, vec) ==
    IF ActiveCells(s) = {} THEN HUGE_VAL
    ELSE CHOOSE d \in { CellDist(s, vec, at) : at \in ActiveCells(s) } :
            \A at \in ActiveCells(s) : DLe(d, CellDist(s, vec, at))

\* the scoring loop has just written the record of the row it read
ScoredRow == pc = "eval_rows" /\ row >= 1 /\ nset = nann /\ sites # <<>>

\* the vector of the scaled annotations of the model
RowVector == [k \in 0..(som.kdim - 1) |-> vals[k]]

\* C14 as stated: the score written for a site is the squared distance from its
\* vector to the nearest prototype at the threshold, the value som_calc_dist
\* returned, whatever the number K of annotations of the model.
C14_ScoreIsSquaredDistance ==
    ScoredRow =>
        /\ qdist = NearestActive(som, RowVector)
        /\ sites[Len(sites)].score = fmt_le(qdist)

\* C14 amended: the score written is that squared distance divided by K.
C14_ScoreIsDistanceOverK ==
    ScoredRow =>
        /\ qdist = NearestActive(som, RowVector)
        /\ sites[Len(sites)].score = fmt_le(DDiv(qdist, Int2Dbl(som.kdim)))

\* a site of a model of two annotations at a finite distance above zero
C14_Witness ==
    /\ ScoredRow
    /\ som.kdim = 2
    /\ isfinite(qdist) /\ qdist # Int2Dbl(0)
    /\ sites[Len(sites)].score = fmt_le(DDiv(qdist, Int2Dbl(2)))

\* C15: a row that arrives when its reservoir, of capacity cap >= 1, is full is
\* written at an index in 0..cap-2, never at the last slot cap-1.
C15_LastSlotNeverReplaced ==
    [][ RowStep("som_init_rows") =>
          /\ (stored'.res = "fixed" /\ ngood_fixed_max >= 1
                                    /\ ngood_vals_fixed = ngood_fixed_max)
                => (0 <= stored'.i /\ stored'.i <= ngood_fixed_max - 2)
          /\ (stored'.res = "learn" /\ ngood_learn_max >= 1
                                    /\ ngood_vals_learn = ngood_learn_max)
                => (0 <= stored'.i /\ stored'.i <= ngood_learn_max - 2) ]_vars

\* the largest integer not above a finite x
Floor(x) == x[1] \div x[2]

\* nt when the sampling pass starts: -n, or the number of good sites
SamplingNt == IF SomParams.nt = 0 \/ SomParams.nt > args_ngood THEN args_ngood ELSE SomParams.nt
FixedCapacity == Floor(DMul(Int2Dbl(SamplingNt), DSub(Int2Dbl(1), nt_learn_frac)))
LearnCapacity == Floor(DMul(Int2Dbl(SamplingNt), nt_learn_frac))

\* a step of the sampling pass on a row with all annotations of the model
SampleStep ==
    /\ pc = "som_init_rows" /\ row' = row + 1
    /\ pc' = "som_init_rows" \/ err' = "SIGSEGV"
    /\ nset' = nann

\* the row read passes the learning filters
PassesLearningFilter ==
    /\ filt_learn.nfilt # NULL
    /\ failed_filters(filt_learn, vals') = 0

\* the write of the step fills the next free slot while the reservoir has one, and
\* lands below the capacity cap in any case
OrderlyWrite(n, m, cap) ==
    /\ 0 <= stored'.i /\ stored'.i < cap
    /\ n < cap => (stored'.i = n /\ m = n + 1)
    /\ n >= cap => m = n

\* C16: in the sampling pass a good row is stored in the fixed reservoir only; a
\* row that is not good is stored, in the learn reservoir only, exactly when a
\* learning filter is set, the learn capacity is not zero and the row fails no
\* filter; the fill counts never exceed floor(nt*(1-learn_frac)) and
\* floor(nt*learn_frac); every write lands below the capacity, and the slots are
\* filled in arrival order before any is replaced.
C16_ReservoirDiscipline ==
    [][ /\ pc \in {"som_init_rows", "som_train"} =>
               /\ ngood_vals_fixed <= FixedCapacity
               /\ ngood_vals_learn <= LearnCapacity
        /\ SampleStep =>
               /\ IS_GOOD(mask') => stored'.res \in {"fixed", "none"}
               /\ ~IS_GOOD(mask') =>
                     /\ stored'.res \in {"learn", "none"}
                     /\ stored'.res = "learn" <=>
                            (PassesLearningFilter /\ LearnCapacity # 0)
               /\ stored'.res = "fixed" =>
                     /\ OrderlyWrite(ngood_vals_fixed, ngood_vals_fixed', FixedCapacity)
                     /\ UNCHANGED <<ngood_vals_learn, good_vals_learn>>
               /\ stored'.res = "learn" =>
                     /\ OrderlyWrite(ngood_vals_learn, ngood_vals_learn', LearnCapacity)
                     /\ UNCHANGED <<ngood_vals_fixed, good_vals_fixed>>
               /\ stored'.res = "none" => UNCHANGED Reservoirs ]_vars

\* the sampling pass is over and nt has been compared with the number of vectors
Sampled == pc \in {"som_train", "som_norm", "eval_filters", "eval_rows", "eval_popen", "evaluate"}

\* som_norm has returned
Normalised == pc \in {"eval_filters", "eval_rows", "eval_popen", "evaluate"}

NSampled == ngood_vals_fixed + ngood_vals_learn

\* C17: after the sampling pass nt is the smaller of its value and the number of
\* sampled vectors; the vectors of the fixed reservoir are trained once each in
\* slot order, then those of the learn reservoir once each in slot order, and
\* som_norm is called after the last som_train call only.
C17_FixedThenLearnThenNorm ==
    /\ Sampled => som.nt = (IF NSampled < SamplingNt THEN NSampled ELSE SamplingNt)
    /\ Sampled => \A k \in 1..Len(calls) :
          /\ k <= ngood_vals_fixed =>
                calls[k] = [fn |-> "som_train", res |-> "fixed", slot |-> k - 1,
                            vec |-> good_vals_fixed[k]]
          /\ (ngood_vals_fixed < k /\ k <= NSampled) =>
                calls[k] = [fn |-> "som_train", res |-> "learn",
                            slot |-> k - ngood_vals_fixed - 1,
                            vec |-> good_vals_learn[k - ngood_vals_fixed]]
          /\ k > NSampled => (k = NSampled + 1 /\ calls[k].fn = "som_norm")
    /\ pc \in {"som_train", "som_norm"} => Len(calls) <= NSampled
    /\ Normalised => Len(calls) = NSampled + 1

\* both reservoirs hold a vector, all of them have been trained and som_norm has run
C17_Witness ==
    /\ pc = "eval_filters"
    /\ ngood_vals_fixed >= 1 /\ ngood_vals_learn >= 1
    /\ Len(calls) = NSampled + 1
    /\ calls[1].res = "fixed" /\ calls[NSampled].res = "learn"
    /\ calls[NSampled + 1].fn = "som_norm"

(***************************************************************************)
(* The evaluation loop on any sorted sites file                            *)
(***************************************************************************)
MaxAll == 11        \* the most records the scoring loop wrote

\* nall and ngood as the scoring loop counted them
EvalAlls == { 1, 2, MaxAll }
EvalGoods == { 0, 1, 2 }

\* the scores of the records
EvalScores == { <<1, 2>> }

\* the lines "sort -k1,1g" may hand over next: the scores come in increasing order,
\* the classes are those of SNPs, and as many lines are good as the scoring loop counted
StreamLines ==
    { ln \in [score : EvalScores, class : {0, 1}, mask : {0, 1}] :
        /\ nall_read < eval_nall
        /\ DGe(ln.score, eval_line.score)
        /\ ln.mask = 1 => ngood_read < eval_ngood
        /\ ln.mask = 0 => eval_nall - nall_read > eval_ngood - ngood_read }

InitEval ==
    /\ pc = "evaluate"
    /\ ArgsZero /\ NoTable
    /\ scratch = <<>> /\ cdists = <<>> /\ cd_i = 0
    /\ sort_fp = <<>> /\ sort_count = 0 /\ sort_val = Int2Dbl(0)
    /\ io = [NoIo EXCEPT !.sites = "closed", !.evsort = TRUE]
    /\ annot_str = NULL /\ learning_filters = NULL
    /\ good_mask = parse_mask(DefaultGoodMask)
    /\ dist_file = <<>>
    /\ row = 0 /\ som = NULL
    /\ ngood_fixed_max = 0 /\ ngood_learn_max = 0
    /\ ngood_vals_fixed = 0 /\ ngood_vals_learn = 0
    /\ good_vals_fixed = <<>> /\ good_vals_learn = <<>>
    /\ sites = <<>>
    /\ TrainZero /\ LoopZero
    /\ eval_nall \in EvalAlls
    /\ eval_ngood \in { g \in EvalGoods : g <= eval_nall }

NextEval == EvalNext(StreamLines) \/ EvalDone(StreamLines)

SpecEval == InitEval /\ [][NextEval]_vars

\* a step of the loop that reads a record
ReadStep == pc = "evaluate" /\ nall_read' = nall_read + 1

\* the step writes a row of the quality table
Emits == Len(out') = Len(out) + 1

\* ts/tv of the records read
TsTv(nc) == Norm(nc[1], nc[0])

C20_SensitivityAndNovelCounts ==
    [][ /\ nclass[0] + nclass[1] + nclass[2] = nall_read
        /\ ReadStep =>
              /\ nclass'[0] + nclass'[1] + nclass'[2] = nall_read'
              /\ ngood_read' = ngood_read + (IF eval_line'.mask % 2 = 1 THEN 1 ELSE 0)
              /\ \A c \in 0..2 :
                    nclass_novel'[c] = nclass_novel[c] +
                        (IF c = eval_line'.class /\ eval_line'.mask % 2 = 0 /\ eval_ngood > 0
                         THEN 1 ELSE 0)
              /\ Emits =>
                    out'[Len(out')].sensitivity =
                        (IF eval_ngood = 0 THEN Int2Dbl(0)
                         ELSE fmt_f(Norm(100 * ngood_read', eval_ngood), 2)) ]_vars

\* one of two good records and a novel record have been read, and the row written
\* reports a sensitivity of 50
C20_Witness ==
    /\ pc = "evaluate"
    /\ eval_ngood = 2 /\ ngood_read = 1
    /\ nclass_novel[0] + nclass_novel[1] >= 1
    /\ out # <<>>
    /\ out[Len(out)].nAll = nall_read
    /\ out[Len(out)].sensitivity = Int2Dbl(50)

(***************************************************************************)
(* determine_variant_class of an indel, on any answer of indel_ctx_type    *)
(***************************************************************************)
MaxRep == 3         \* nrep and nlen are 0..MaxRep, ndel is -MaxRep..MaxRep

\* what indel_ctx_type hands back: the number of repeats, the length of the repeated
\* unit and the length difference of the alleles
CtxReturns == [nrep : 0..MaxRep, nlen : 0..MaxRep, ndel : (-MaxRep)..MaxRep]

\* lines 1056-1061: the class of an indel when args->indel_ctx is set
determine_variant_class_indel(ctx) ==
    IF ctx.nlen <= 1 \/ ctx.nrep <= 1 THEN 2
    ELSE IF Abs(ctx.ndel) % ctx.nlen # 0 THEN 0
    ELSE 1

\* one call of determine_variant_class for an indel
DetermineVariantClass ==
    /\ pc \in {"classify", "classified"}
    /\ \E ctx \in CtxReturns :
          /\ ictx' = ctx
          /\ vclass' = determine_variant_class_indel(ctx)
    /\ pc' = "classified"
    /\ UNCHANGED <<err, inputVars, annotVars, readerVars, filterVars, createVars, tableVars,
                   somVars, trainVars, queryVars, evalVars, trn,
                   io>>

InitClass ==
    /\ pc = "classify"
    /\ ArgsZero /\ CreateZero /\ NoTable
    /\ annot_str = NULL /\ learning_filters = NULL
    /\ good_mask = parse_mask(DefaultGoodMask)
    /\ dist_file = <<>>
    /\ SomZero

NextClass == DetermineVariantClass

SpecClass == InitClass /\ [][NextClass]_vars

\* C21: with an indel context, the class is 2 exactly when ndel = 0 or nlen <= 1 or
\* nrep <= 1; otherwise it is 1 when |ndel| mod nlen = 0 and 0 when it is not.
C21_IndelClassByContext ==
    pc = "classified" =>
        vclass = (IF ictx.ndel = 0 \/ ictx.nlen <= 1 \/ ictx.nrep <= 1 THEN 2
                  ELSE IF Abs(ictx.ndel) % ictx.nlen = 0 THEN 1
                  ELSE 0)

(***************************************************************************)
(* som_train on any grid som_init_rand can leave                           *)
(***************************************************************************)
ExpPrec == 8        \* exp is computed to eighths

\* exp(-x) for a finite x >= 0, to the nearest eighth and never 0: the quotient
\* (12 - 6x + x^2) / (12 + 6x + x^2) is within 0.03 of exp(-x) for x in [0,3] and
\* decreases there; larger x count as 3
exp_minus(x) ==
    LET y == IF DGt(x, Int2Dbl(3)) THEN Int2Dbl(3) ELSE x
        y2 == DMul(y, y)
        y6 == DMul(Int2Dbl(6), y)
        q == DDiv(DAdd(DSub(Int2Dbl(12), y6), y2), DAdd(DAdd(Int2Dbl(12), y6), y2))
        k == RoundHalfEven(DMul(q, Int2Dbl(ExpPrec)))
    IN  Norm(IF k < 1 THEN 1 ELSE k, ExpPrec)

\* line 827: jsom for the value r of random()
train_jsom(s, r) == IF s.nsom = 1 THEN 0 ELSE trunc(Norm(s.nsom * r, RAND_MAX))

\* the test that lets a later cell at the same distance replace the best one
bmu_closer_or_equal(dist, min_dist) == DLe(dist, min_dist)

\* dist < min_dist, line 843
bmu_closer(dist, min_dist) == DLt(dist, min_dist)

\* lines 834-850: the cell imin*nbin + jmin of map jsom, scanned from cell on
RECURSIVE train_bmu(_, _, _, _, _, _)
train_bmu(s, vec, jsom, cell, min_dist, best) ==
    IF cell >= s.nbin * s.nbin THEN best
    ELSE LET dist == sq_dist(s.w, vec, (jsom * s.nbin * s.nbin + cell) * s.kdim, s.kdim, 0)
         IN  IF bmu_closer(dist, min_dist)
             THEN train_bmu(s, vec, jsom, cell + 1, dist, cell)
             ELSE train_bmu(s, vec, jsom, cell + 1, min_dist, best)

\* the value of t that is the counter after its increment
train_t_incremented(s, jsom) == (s.t[jsom] + 1) * s.nsom

\* double t = som->t[jsom]++ * som->nsom, line 852
train_t(s, jsom) == s.t[jsom] * s.nsom

\* lines 853-855: radius (squared) and learning_rate
train_radius(s, t) ==
    LET r == DMul(Int2Dbl(s.nbin), exp_minus(Norm(t, s.nt)))
    IN  DMul(r, r)
train_rate(s, t) == DMul(s.learn, exp_minus(Norm(t, s.nt)))

\* lines 858-873: ptr starts at som->w, the weights of map 0, and cnt at the counts
\* of map jsom, where line 833 left it; from cell on
RECURSIVE train_update(_, _, _, _, _, _, _)
train_update(s, vec, jsom, bmu, radius, rate, cell) ==
    IF cell >= s.nbin * s.nbin THEN s
    ELSE LET i == cell \div s.nbin
             j == cell % s.nbin
             imin == bmu \div s.nbin
             jmin == bmu % s.nbin
             dist == Int2Dbl((i - imin) * (i - imin) + (j - jmin) * (j - jmin))
             influence == DMul(exp_minus(DDiv(DMul(DMul(dist, dist), <<1, 2>>), radius)), rate)
             ptr == cell * s.kdim
             cnt == jsom * s.nbin * s.nbin + cell
         IN  IF DLe(dist, radius)
             THEN train_update(
                    [s EXCEPT !.w = [x \in DOMAIN s.w |->
                                       IF x >= ptr /\ x < ptr + s.kdim
                                       THEN DAdd(s.w[x], DMul(influence, DSub(vec[x - ptr], s.w[x])))
                                       ELSE s.w[x]],
                              !.c[cnt] = DAdd(@, influence)],
                    vec, jsom, bmu, radius, rate, cell + 1)
             ELSE train_update(s, vec, jsom, bmu, radius, rate, cell + 1)

\* som_train(som, vec) for the value r of random(): the grid it leaves and its locals
som_train(s, vec, r) ==
    LET jsom == train_jsom(s, r)
        bmu == train_bmu(s, vec, jsom, 0, HUGE_VAL, 0)
        t == train_t(s, jsom)
        radius == train_radius(s, t)
        rate == train_rate(s, t)
    IN  [som |-> train_update([s EXCEPT !.t[jsom] = @ + 1], vec, jsom, bmu, radius, rate, 0),
         locals |-> [jsom |-> jsom, imin |-> bmu \div s.nbin, jmin |-> bmu % s.nbin,
                     t |-> t, radius |-> radius, rate |-> rate, vec |-> vec]]

MaxTrain == 2       \* the most som_train calls of a run

\* -m nbin,learn,th,nsom and the number of annotations of the model
TrainShapes ==
    { [nbin |-> 1, nsom |-> 1, kdim |-> 2],
      [nbin |-> 2, nsom |-> 1, kdim |-> 1],
      [nbin |-> 1, nsom |-> 2, kdim |-> 1],
      [nbin |-> 2, nsom |-> 2, kdim |-> 1] }

\* the scaled annotations of a training vector
TrainVals == { Int2Dbl(0), Int2Dbl(1) }

\* good_som as som_init1 and som_init_rand leave it, for -m nbin,0.5,th,nsom and two
\* training vectors
FreshGrids ==
    UNION { { [nbin |-> sh.nbin, learn |-> <<1, 2>>, th |-> SomParams.th, nsom |-> sh.nsom,
               kdim |-> sh.kdim, nt |-> 2, w |-> w,
               c |-> [i \in 0..(sh.nbin * sh.nbin * sh.nsom - 1) |-> Int2Dbl(0)],
               t |-> [j \in 0..(sh.nsom - 1) |-> 0]] :
              w \in [0..(sh.nbin * sh.nbin * sh.kdim * sh.nsom - 1) -> WeightVals] } :
            sh \in TrainShapes }

\* the calls made so far
NTrained == Len(calls)

\* one som_train call that passes assert( jsom<som->nsom )
SomTrainStep ==
    /\ pc = "train"
    /\ NTrained < MaxTrain
    /\ \E vec \in [0..(som.kdim - 1) -> TrainVals], r \in 0..RAND_MAX :
          /\ train_jsom(som, r) < som.nsom
          /\ \E res \in { som_train(som, vec, r) } :
                /\ som' = res.som
                /\ trn' = res.locals
                /\ calls' = Append(calls, [fn |-> "som_train", res |-> "", slot |-> 0, vec |-> vec])
    /\ UNCHANGED <<pc, err, inputVars, annotVars, readerVars, filterVars, createVars, tableVars,
                   row, ngood_fixed_max, ngood_learn_max, ngood_vals_fixed, ngood_vals_learn,
                   good_vals_fixed, good_vals_learn, sites, stored, queryVars, evalVars,
                   ictx, vclass,
                   io>>

\* one som_train call with jsom = nsom: the assertion of line 828 ends the run, or,
\* compiled with NDEBUG, the loops read and write past the arrays of the grid
SomTrainPastLastMap ==
    /\ pc = "train"
    /\ NTrained < MaxTrain
    /\ \E vec \in [0..(som.kdim - 1) -> TrainVals], r \in 0..RAND_MAX :
          /\ train_jsom(som, r) >= som.nsom
          /\ trn' = [NoTrain EXCEPT !.jsom = train_jsom(som, r), !.vec = vec]
    /\ pc' = "error"
    /\ err' \in { "Assertion `jsom<som->nsom' failed", "SIGSEGV" }
    /\ UNCHANGED <<inputVars, annotVars, readerVars, filterVars, createVars, tableVars,
                   somVars, trainVars, queryVars, evalVars, ictx, vclass,
                   io>>

InitTrain ==
    /\ pc = "train"
    /\ ArgsZero /\ CreateZero /\ NoTable
    /\ annot_str = NULL /\ learning_filters = NULL
    /\ good_mask = parse_mask(DefaultGoodMask)
    /\ dist_file = <<>>
    /\ som \in FreshGrids
    /\ row = 0
    /\ ngood_fixed_max = 0 /\ ngood_learn_max = 0
    /\ ngood_vals_fixed = 0 /\ ngood_vals_learn = 0
    /\ good_vals_fixed = <<>> /\ good_vals_learn = <<>>
    /\ sites = <<>>
    /\ LaterZero

NextTrain == SomTrainStep \/ SomTrainPastLastMap

SpecTrain == InitTrain /\ [][NextTrain]_vars

\* a step that is a som_train call which returned
TrainCall == pc = "train" /\ pc' = "train" /\ Len(calls') = Len(calls) + 1

\* the cells of map j, and the squared grid distance of cell q of a map to the BMU
MapCells(s, j) == (j * s.nbin * s.nbin)..((j + 1) * s.nbin * s.nbin - 1)
GridDist(s, q, l) ==
    LET di == (q \div s.nbin) - l.imin
        dj == (q % s.nbin) - l.jmin
    IN  di * di + dj * dj

\* C22: a som_train call that selects map j leaves the weights and counts of every
\* other map as they were; in map j the cells within the radius of the BMU, and no
\* others, are updated: the count of such a cell grows by an influence > 0 and each
\* of its weights moves by that influence times (v[k] - w).
C22_TrainChangesOnlySelectedMap ==
    [][ TrainCall =>
          LET j == trn'.jsom
              n2 == som.nbin * som.nbin
          IN  /\ \A at \in DOMAIN som.c :
                    at \notin MapCells(som, j) =>
                        /\ som'.c[at] = som.c[at]
                        /\ \A k \in 0..(som.kdim - 1) :
                              som'.w[at * som.kdim + k] = som.w[at * som.kdim + k]
              /\ \A q \in 0..(n2 - 1) :
                    LET at == j * n2 + q
                        influence == DSub(som'.c[at], som.c[at])
                    IN  IF DLe(Int2Dbl(GridDist(som, q, trn')), trn'.radius)
                        THEN /\ DGt(influence, Int2Dbl(0))
                             /\ \A k \in 0..(som.kdim - 1) :
                                   som'.w[at * som.kdim + k] =
                                       DAdd(som.w[at * som.kdim + k],
                                            DMul(influence,
                                                 DSub(trn'.vec[k], som.w[at * som.kdim + k])))
                        ELSE /\ som'.c[at] = som.c[at]
                             /\ \A k \in 0..(som.kdim - 1) :
                                   som'.w[at * som.kdim + k] = som.w[at * som.kdim + k] ]_vars

\* C23: the BMU is the first cell, in row-major order, of the selected map at the
\* least squared distance to the vector; radius and learning rate come from
\* t[j]*nsom with t[j] as it was before the call; the call adds 1 to t[j] and leaves
\* the counters of the other maps alone.
C23_FirstNearestCellAndCounter ==
    [][ TrainCall =>
          LET j == trn'.jsom
              n2 == som.nbin * som.nbin
              bmu == trn'.imin * som.nbin + trn'.jmin
              D(q) == CellDist(som, trn'.vec, j * n2 + q)
              decay == exp_minus(Norm(som.t[j] * som.nsom, som.nt))
          IN  /\ trn'.imin \in 0..(som.nbin - 1) /\ trn'.jmin \in 0..(som.nbin - 1)
              /\ \A q \in 0..(n2 - 1) : DLe(D(bmu), D(q))
              /\ \A q \in 0..(bmu - 1) : DGt(D(q), D(bmu))
              /\ trn'.t = som.t[j] * som.nsom
              /\ trn'.radius = DMul(DMul(Int2Dbl(som.nbin), decay), DMul(Int2Dbl(som.nbin), decay))
              /\ trn'.rate = DMul(som.learn, decay)
              /\ som'.t = [som.t EXCEPT ![j] = @ + 1] ]_vars

\* the second call on a map of four cells found its BMU past the first cell, with a
\* radius that leaves the cell across the diagonal out
C23_Witness ==
    /\ pc = "train"
    /\ som.nbin = 2 /\ som.t[trn.jsom] = 2
    /\ trn.t > 0
    /\ trn.imin * som.nbin + trn.jmin > 0
    /\ DLt(trn.radius, Int2Dbl(2))

\* C25: the map index of a som_train call is in 0..nsom-1 whatever random()
\* returns, and the assertion jsom<nsom never fails.
C25_MapIndexInRange ==
    /\ trn.jsom >= 0
    /\ trn.jsom < som.nsom
    /\ err = ""

(***************************************************************************)
(* The values annots_reader_next takes from the annotation columns         *)
(***************************************************************************)
\* the number written in a field, and whether the field counts as missing
FieldNumber(text) == sscanf_le(text, 1).val
FieldMissing(text) == text = <<".">> \/ ~isfinite(FieldNumber(text))

\* C24: after a row is read, for every model annotation i the flag missing[i] is
\* set exactly when the text of column ann2cols[i] is "." or a non-finite number,
\* and otherwise raw_vals[i] is the number written in that column, the first
\* annotation column included; the entries of vals, raw_vals and missing that no
\* model annotation owns keep their initial values.
C24_ModelColumnsReadAsWritten ==
    /\ RowRead =>
          \A i \in 0..(nann - 1) :
             LET text == Field(line, ann2cols[i] + 1)
             IN  /\ missing[i] # 0 <=> FieldMissing(text)
                 /\ missing[i] = 0 => raw_vals[i] = FieldNumber(text)
    /\ pc = "reading" =>
          \A i \in nann..(ncols - 1) :
             vals[i] = Int2Dbl(0) /\ raw_vals[i] = Int2Dbl(0) /\ missing[i] = 0

(***************************************************************************)
(* The mapping between model annotations and table columns                 *)
(***************************************************************************)
\* col2names, ann2cols and ignore agree on the model
AnnotsConsistent ==
    /\ \A i \in 0..(nann - 1) :
          /\ ann2cols[i] \in AnnCols
          /\ col2names[ann2cols[i]] = i
          /\ ignore[ann2cols[i]] = 0
    /\ \A i, j \in 0..(nann - 1) : i # j => ann2cols[i] # ann2cols[j]
    /\ \A c \in AnnCols : col2names[c] = -1 => ignore[c] # 0

\* init_annots or init_filters has returned
AnnotsReady == pc \in {"init_filters", "filtering"}

\* the columns an init_filters call adds to the model
AddedCols == { c \in AnnCols : col2names[c] = -1 /\ col2names'[c] # -1 }

\* C26: after init_annots and after init_filters, col2names[ann2cols[i]] = i and
\* ignore[ann2cols[i]] = 0 for every model index i < nann, two model indices never
\* share a column, and an annotation column with col2names = -1 is ignored; an
\* init_filters call adds 1 to nann for each column it brings into the model, and
\* leaves nann_som and the mappings that were there as they were.
C26_ModelMappingConsistent ==
    [][ /\ AnnotsReady' => AnnotsConsistent'
        /\ (pc = "init_filters" /\ pc' = "filtering") =>
              /\ nann_som' = nann_som
              /\ nann' = nann + Cardinality(AddedCols)
              /\ \A c \in AddedCols : col2names'[c] \in nann..(nann' - 1)
              /\ \A i \in 0..(nann - 1) : ann2cols'[i] = ann2cols[i]
              /\ \A c \in 0..(ncols - 1) :
                    col2names[c] # -1 => col2names'[c] = col2names[c] /\ ignore'[c] = ignore[c]
              /\ \A c \in 0..(NFIXED - 1) : ignore'[c] = ignore[c] ]_vars

\* the learning filter has brought a column into a model that was given with -a
C26_Witness ==
    /\ pc = "filtering"
    /\ nann_som = 1 /\ nann = 2
    /\ col2names[ann2cols[1]] = 1

(***************************************************************************)
(* The whole run of eval_filters on a table without <prefix>.n             *)
(***************************************************************************)
\* good and other rows with both annotations, and a good row without the second
RunLines ==
    { TableLine(<<"0", "1", "0">>, <<"0", "2">>, <<"2">>),
      TableLine(<<"0", "1", "0">>, <<"0", "3">>, <<"1">>),
      TableLine(<<"0", "0", "0">>, <<"0", "2">>, <<"3">>),
      TableLine(<<"0", "1", "0">>, <<"0", "2">>, <<".">>) }

RECURSIVE RunTables(_)
RunTables(n) ==
    IF n = 0 THEN { <<>> }
    ELSE RunTables(n - 1)
         \cup { Append(t, l) : t \in { u \in RunTables(n - 1) : Len(u) = n - 1 },
                               l \in RunLines }

\* init_annots has read the column names and init_dists has found no <prefix>.n
InitRun ==
    /\ pc = "create_dists_open"
    /\ ArgsZero /\ CreateZero /\ SomZero
    /\ \/ annot_str = NULL /\ learning_filters = NULL
       \/ annot_str = <<"A">> /\ learning_filters = NULL
       \/ annot_str = <<"A">> /\ learning_filters = <<"B", "<", "2">>
    /\ good_mask = parse_mask(DefaultGoodMask)
    /\ dist_file = <<>>
    /\ table \in RunTables(MaxRows)
    /\ nt_learn_frac \in LearnFracs

NextRun ==
    \/ CreateDistsOpen
    \/ CreateDistsRow
    \/ CreateDistsRestore
    \/ CreateDistsFclose
    \/ CreateDistsSort
    \/ CreateDistsScan
    \/ CreateDistsClose
    \/ CreateDistsUnlink
    \/ CreateDistsWrite
    \/ Next
    \/ EvalNext(SiteLines)
    \/ EvalDone(SiteLines)

\* the steps of create_dists but the read of a row
CreateDistsSteps ==
    \/ CreateDistsOpen
    \/ CreateDistsRestore
    \/ CreateDistsFclose
    \/ CreateDistsSort
    \/ CreateDistsScan
    \/ CreateDistsClose
    \/ CreateDistsUnlink

\* CreateDistsRow as pc and row show it: the step is possible whenever the reader is
\* not at the end of the table, and it reads one row
ReadsRow ==
    /\ pc = "create_dists_rows"
    /\ row < Len(table)
    /\ row' = row + 1
    /\ pc' \in {"create_dists_rows", "error"}

\* create_dists runs on until it returns or the run is aborted: no step of it waits
\* for another process but the reads and the close of a sort stream, and sort ends
SpecRun ==
    InitRun /\ [][NextRun]_vars /\ WF_vars(CreateDistsSteps) /\ WF_<<pc, row>>(ReadsRow)

(***************************************************************************)
(* C27: the evaluator reads no more than the scoring loop counted          *)
(***************************************************************************)
\* the records of the sites file that are written as good
GoodSites == { i \in DOMAIN sites : sites[i].good = 1 }

ClosedBeforeSorted ==
    /\ io.sort # -1 => io.fps = {}
    /\ io.evsort => io.sites = "closed"

\* a scratch file is removed only by the step that follows the end and the close of the
\* sort stream of its column
RemovedAfterRead ==
    \A c \in io.tmp \ io'.tmp :
        /\ c = cd_i
        /\ sort_fp = <<>> /\ sort_count = cdists[c].nall
        /\ io.sort = -1 /\ io.status = 0

\* a sort of a column that exits with a status other than 0 ends the run
SortFailureAborts == io.status # 0 => pc = "error" /\ err # ""

\* C28: every scratch file is closed before a sort of a column is started; the sort
\* stream of a column is read to its end and closed before the scratch file of the
\* column is removed; in a run that is not aborted every scratch file is removed in
\* the end, and none is left once create_dists has returned; the BGZF sites file is
\* closed before the sort of the sites is started; a status other than 0 of a sort of
\* a column aborts the run
C28_FilesClosedSortedRemoved ==
    /\ [](ClosedBeforeSorted /\ SortFailureAborts)
    /\ [][RemovedAfterRead]_vars
    /\ [](pc \notin {"error", "create_dists_open", "create_dists_rows", "create_dists_fclose",
                     "create_dists", "create_dists_scan", "create_dists_unlink"}
             => io.tmp = {})
    /\ \A c \in Columns : (c \in io.tmp) ~> (c \notin io.tmp \/ pc = "error")

\* a run over a table of several rows that has ended: both scratch files were written,
\* sorted and removed, and the sites were written, closed and sorted
C28_Witness ==
    /\ pc = "done"
    /\ \A c \in Columns : cdists[c].nall >= 2
    /\ io.tmp = {} /\ io.fps = {} /\ io.status = 0
    /\ io.sites = "closed" /\ Len(sites) >= 2

=============================================================================
